---- MODULE Spec2Model ----
(***************************************************************************)
(* Diagnostics core of sqfvm-runtime (src/src/logging.h): severity levels, *)
(* diagnostic messages and their catalog, the Logger with its per-severity *)
(* gates and sink, and the CanLog emitter capability.                      *)
(***************************************************************************)
EXTENDS Naturals, Sequences, FiniteSets, TLC

\* ------------------------------------------------------------------ bounds
\* Most writes the sink records before the model stops writing to it.
MaxSink == 2
\* Most formatMessage calls counted on one held message.
MaxRender == 2

\* ---------------------------------------------------------------- loglevel
\* enum class loglevel, in declaration order: static_cast<size_t> of a level
\* is its position, counted from 0.
loglevel == <<"fatal", "error", "warning", "info", "verbose", "trace">>

Levels == {loglevel[i] : i \in 1..Len(loglevel)}

Ordinal == [level \in Levels |-> (CHOOSE i \in 1..Len(loglevel) : loglevel[i] = level) - 1]

static_cast(level) == Ordinal[level]

\* --------------------------------------------------------- LogLocationInfo
LogLocationInfo(path, line, col) == [path |-> path, line |-> line, col |-> col]

\* LogLocationInfo::format: path, then line, then column.
LogLocationInfo_format(loc) == <<loc.path, ToString(loc.line), ToString(loc.col)>>

\* ---------------------------------------------------------- LogMessageBase
LogMessageBase_Mut_DefaultLevel(level, code) == [level |-> "verbose", errorCode |-> code]

LogMessageBase_Mut_CodeDropped(level, code) == [level |-> level, errorCode |-> 0]

LogMessageBase(level, code) == [level |-> level, errorCode |-> code]

getLevel(m) == m.base.level

getErrorCode(m) == m.base.errorCode

\* The per-domain bases: each hands level and code to LogMessageBase and
\* keeps the location.
PreprocBase(level, errorCode, location) ==
    [base |-> LogMessageBase(level, errorCode), location |-> location]

AssemblyBase(level, errorCode, location) ==
    [base |-> LogMessageBase(level, errorCode), location |-> location]

SqfBase(level, errorCode, location) ==
    [base |-> LogMessageBase(level, errorCode), location |-> location]

ConfigBase(level, errorCode, location) ==
    [base |-> LogMessageBase(level, errorCode), location |-> location]

LintingBase(level, errorCode, location) ==
    [base |-> LogMessageBase(level, errorCode), location |-> location]

RuntimeBase(level, errorCode, location) ==
    [base |-> LogMessageBase(level, errorCode), location |-> location]

DomainBase(ns, level, errorCode, location) ==
    CASE ns = "preprocessor" -> PreprocBase(level, errorCode, location)
      [] ns = "assembly"     -> AssemblyBase(level, errorCode, location)
      [] ns = "sqf"          -> SqfBase(level, errorCode, location)
      [] ns = "config"       -> ConfigBase(level, errorCode, location)
      [] ns = "linting"      -> LintingBase(level, errorCode, location)
      [] ns = "runtime"      -> RuntimeBase(level, errorCode, location)

\* ----------------------------------------------------------------- catalog
\* Every concrete kind of namespace logmessage with its two static members,
\* in declaration order.
Catalog ==
  <<
    [ns |-> "preprocessor", name |-> "ArgCountMissmatch", level |-> "error", errorCode |-> 10001],  \* line 121
    [ns |-> "preprocessor", name |-> "UnexpectedDataAfterInclude", level |-> "warning", errorCode |-> 10002],  \* line 129
    [ns |-> "preprocessor", name |-> "RecursiveInclude", level |-> "error", errorCode |-> 10003],  \* line 137
    [ns |-> "preprocessor", name |-> "IncludeFailed", level |-> "error", errorCode |-> 10004],  \* line 147
    [ns |-> "preprocessor", name |-> "MacroDefinedTwice", level |-> "warning", errorCode |-> 10005],  \* line 158
    [ns |-> "preprocessor", name |-> "MacroNotFound", level |-> "warning", errorCode |-> 10006],  \* line 168
    [ns |-> "preprocessor", name |-> "UnexpectedIfdef", level |-> "error", errorCode |-> 10007],  \* line 178
    [ns |-> "preprocessor", name |-> "UnexpectedIfndef", level |-> "error", errorCode |-> 10008],  \* line 186
    [ns |-> "preprocessor", name |-> "UnexpectedElse", level |-> "error", errorCode |-> 10009],  \* line 194
    [ns |-> "preprocessor", name |-> "UnexpectedEndif", level |-> "error", errorCode |-> 10010],  \* line 202
    [ns |-> "preprocessor", name |-> "MissingEndif", level |-> "error", errorCode |-> 10011],  \* line 210
    [ns |-> "preprocessor", name |-> "UnknownInstruction", level |-> "error", errorCode |-> 10012],  \* line 218
    [ns |-> "preprocessor", name |-> "EmptyArgument", level |-> "warning", errorCode |-> 10013],  \* line 228
    [ns |-> "assembly", name |-> "ExpectedSemicolon", level |-> "error", errorCode |-> 20001],  \* line 248
    [ns |-> "assembly", name |-> "NoViableAlternativeInstructions", level |-> "error", errorCode |-> 20002],  \* line 255
    [ns |-> "assembly", name |-> "NoViableAlternativeArg", level |-> "error", errorCode |-> 20003],  \* line 262
    [ns |-> "assembly", name |-> "ExpectedEndStatement", level |-> "error", errorCode |-> 20004],  \* line 269
    [ns |-> "assembly", name |-> "ExpectedCallNular", level |-> "error", errorCode |-> 20005],  \* line 276
    [ns |-> "assembly", name |-> "ExpectedNularOperator", level |-> "error", errorCode |-> 20006],  \* line 283
    [ns |-> "assembly", name |-> "UnknownNularOperator", level |-> "error", errorCode |-> 20007],  \* line 290
    [ns |-> "assembly", name |-> "ExpectedCallUnary", level |-> "error", errorCode |-> 20008],  \* line 299
    [ns |-> "assembly", name |-> "ExpectedUnaryOperator", level |-> "error", errorCode |-> 20009],  \* line 306
    [ns |-> "assembly", name |-> "UnknownUnaryOperator", level |-> "error", errorCode |-> 20010],  \* line 313
    [ns |-> "assembly", name |-> "ExpectedCallBinary", level |-> "error", errorCode |-> 20011],  \* line 322
    [ns |-> "assembly", name |-> "ExpectedBinaryOperator", level |-> "error", errorCode |-> 20012],  \* line 329
    [ns |-> "assembly", name |-> "UnknownBinaryOperator", level |-> "error", errorCode |-> 20013],  \* line 336
    [ns |-> "assembly", name |-> "ExpectedAssignTo", level |-> "error", errorCode |-> 20014],  \* line 345
    [ns |-> "assembly", name |-> "ExpectedVariableName", level |-> "error", errorCode |-> 20015],  \* line 352
    [ns |-> "assembly", name |-> "ExpectedAssignToLocal", level |-> "error", errorCode |-> 20016],  \* line 359
    [ns |-> "assembly", name |-> "ExpectedGetVariable", level |-> "error", errorCode |-> 20017],  \* line 366
    [ns |-> "assembly", name |-> "ExpectedMakeArray", level |-> "error", errorCode |-> 20018],  \* line 373
    [ns |-> "assembly", name |-> "ExpectedInteger", level |-> "error", errorCode |-> 20019],  \* line 380
    [ns |-> "assembly", name |-> "ExpectedPush", level |-> "error", errorCode |-> 20020],  \* line 387
    [ns |-> "assembly", name |-> "ExpectedTypeName", level |-> "error", errorCode |-> 20021],  \* line 394
    [ns |-> "assembly", name |-> "NumberOutOfRange", level |-> "warning", errorCode |-> 20022],  \* line 401
    [ns |-> "sqf", name |-> "ExpectedStatementTerminator", level |-> "error", errorCode |-> 30001],  \* line 419
    [ns |-> "sqf", name |-> "NoViableAlternativeStatement", level |-> "error", errorCode |-> 30002],  \* line 426
    [ns |-> "sqf", name |-> "MissingUnderscoreOnPrivateVariable", level |-> "error", errorCode |-> 30003],  \* line 433
    [ns |-> "sqf", name |-> "ExpectedBinaryExpression", level |-> "error", errorCode |-> 30004],  \* line 443
    [ns |-> "sqf", name |-> "MissingRightArgument", level |-> "error", errorCode |-> 30005],  \* line 450
    [ns |-> "sqf", name |-> "MissingRoundClosingBracket", level |-> "error", errorCode |-> 30006],  \* line 460
    [ns |-> "sqf", name |-> "MissingCurlyClosingBracket", level |-> "error", errorCode |-> 30007],  \* line 468
    [ns |-> "sqf", name |-> "MissingSquareClosingBracket", level |-> "error", errorCode |-> 30008],  \* line 476
    [ns |-> "sqf", name |-> "NoViableAlternativePrimaryExpression", level |-> "error", errorCode |-> 30009],  \* line 484
    [ns |-> "sqf", name |-> "EmptyNumber", level |-> "error", errorCode |-> 30010],  \* line 492
    [ns |-> "sqf", name |-> "ExpectedSQF", level |-> "error", errorCode |-> 30011],  \* line 499
    [ns |-> "sqf", name |-> "EndOfFile", level |-> "error", errorCode |-> 30012],  \* line 506
    [ns |-> "config", name |-> "ExpectedStatementTerminator", level |-> "error", errorCode |-> 40001],  \* line 523
    [ns |-> "config", name |-> "NoViableAlternativeNode", level |-> "error", errorCode |-> 40002],  \* line 530
    [ns |-> "config", name |-> "ExpectedIdentifier", level |-> "error", errorCode |-> 40003],  \* line 538
    [ns |-> "config", name |-> "MissingRoundClosingBracket", level |-> "error", errorCode |-> 40004],  \* line 546
    [ns |-> "config", name |-> "MissingCurlyOpeningBracket", level |-> "error", errorCode |-> 40005],  \* line 554
    [ns |-> "config", name |-> "MissingCurlyClosingBracket", level |-> "error", errorCode |-> 40006],  \* line 562
    [ns |-> "config", name |-> "MissingSquareClosingBracket", level |-> "error", errorCode |-> 40007],  \* line 570
    [ns |-> "config", name |-> "MissingEqualSign", level |-> "error", errorCode |-> 40008],  \* line 578
    [ns |-> "config", name |-> "ExpectedArray", level |-> "error", errorCode |-> 40009],  \* line 586
    [ns |-> "config", name |-> "ExpectedValue", level |-> "error", errorCode |-> 40010],  \* line 594
    [ns |-> "config", name |-> "NoViableAlternativeValue", level |-> "error", errorCode |-> 40011],  \* line 602
    [ns |-> "config", name |-> "EndOfFileNotReached", level |-> "error", errorCode |-> 40012],  \* line 610
    [ns |-> "linting", name |-> "UnassignedVariable", level |-> "warning", errorCode |-> 50001],  \* line 628
    [ns |-> "runtime", name |-> "Stacktrace", level |-> "fatal", errorCode |-> 60001],  \* line 648
    [ns |-> "runtime", name |-> "MaximumInstructionCountReached", level |-> "fatal", errorCode |-> 60002],  \* line 659
    [ns |-> "runtime", name |-> "ExpectedArraySizeMissmatch", level |-> "error", errorCode |-> 60003],  \* line 670
    [ns |-> "runtime", name |-> "ExpectedArraySizeMissmatchWeak", level |-> "warning", errorCode |-> 60004],  \* line 688
    [ns |-> "runtime", name |-> "ExpectedMinimumArraySizeMissmatch", level |-> "error", errorCode |-> 60005],  \* line 706
    [ns |-> "runtime", name |-> "ExpectedMinimumArraySizeMissmatchWeak", level |-> "warning", errorCode |-> 60006],  \* line 719
    [ns |-> "runtime", name |-> "ExpectedArrayTypeMissmatch", level |-> "error", errorCode |-> 60007],  \* line 732
    [ns |-> "runtime", name |-> "ExpectedArrayTypeMissmatchWeak", level |-> "warning", errorCode |-> 60008],  \* line 754
    [ns |-> "runtime", name |-> "IndexOutOfRange", level |-> "error", errorCode |-> 60009],  \* line 776
    [ns |-> "runtime", name |-> "IndexOutOfRangeWeak", level |-> "warning", errorCode |-> 60010],  \* line 789
    [ns |-> "runtime", name |-> "NegativeIndex", level |-> "error", errorCode |-> 60011],  \* line 803
    [ns |-> "runtime", name |-> "NegativeIndexWeak", level |-> "warning", errorCode |-> 60012],  \* line 812
    [ns |-> "runtime", name |-> "IndexEqualsRange", level |-> "warning", errorCode |-> 60013],  \* line 821
    [ns |-> "runtime", name |-> "ReturningNil", level |-> "verbose", errorCode |-> 60014],  \* line 834
    [ns |-> "runtime", name |-> "ReturningEmptyArray", level |-> "verbose", errorCode |-> 60015],  \* line 843
    [ns |-> "runtime", name |-> "NegativeSize", level |-> "error", errorCode |-> 60016],  \* line 852
    [ns |-> "runtime", name |-> "NegativeSizeWeak", level |-> "warning", errorCode |-> 60017],  \* line 861
    [ns |-> "runtime", name |-> "ArrayRecursion", level |-> "error", errorCode |-> 60018],  \* line 870
    [ns |-> "runtime", name |-> "InfoMessage", level |-> "info", errorCode |-> 60019],  \* line 879
    [ns |-> "runtime", name |-> "SuspensionDisabled", level |-> "error", errorCode |-> 60020],  \* line 892
    [ns |-> "runtime", name |-> "SuspensionInUnscheduledEnvironment", level |-> "error", errorCode |-> 60021],  \* line 902
    [ns |-> "runtime", name |-> "ReturningConfigNull", level |-> "verbose", errorCode |-> 60022],  \* line 911
    [ns |-> "runtime", name |-> "AssertFailed", level |-> "error", errorCode |-> 60023],  \* line 920
    [ns |-> "runtime", name |-> "StartIndexExceedsToIndex", level |-> "error", errorCode |-> 60024],  \* line 929
    [ns |-> "runtime", name |-> "StartIndexExceedsToIndexWeak", level |-> "warning", errorCode |-> 60025],  \* line 942
    [ns |-> "runtime", name |-> "MagicVariableTypeMissmatch", level |-> "error", errorCode |-> 60026],  \* line 955
    [ns |-> "runtime", name |-> "ScriptHandleAlreadyTerminated", level |-> "warning", errorCode |-> 60027],  \* line 970
    [ns |-> "runtime", name |-> "ScriptHandleAlreadyFinished", level |-> "warning", errorCode |-> 60028],  \* line 979
    [ns |-> "runtime", name |-> "ExtensionLoaded", level |-> "verbose", errorCode |-> 60029],  \* line 988
    [ns |-> "runtime", name |-> "ExtensionNotTerminatingVersionString", level |-> "warning", errorCode |-> 60030],  \* line 1001
    [ns |-> "runtime", name |-> "ExtensionNotTerminatingCallExtensionBufferString", level |-> "warning", errorCode |-> 60031],  \* line 1013
    [ns |-> "runtime", name |-> "ExtensionNotTerminatingCallExtensionArgBufferString", level |-> "warning", errorCode |-> 60032],  \* line 1024
    [ns |-> "runtime", name |-> "LibraryNameContainsPath", level |-> "warning", errorCode |-> 60033],  \* line 1035
    [ns |-> "runtime", name |-> "ReturningEmptyString", level |-> "verbose", errorCode |-> 60034],  \* line 1046
    [ns |-> "runtime", name |-> "ExtensionRuntimeError", level |-> "warning", errorCode |-> 60035],  \* line 1055
    [ns |-> "runtime", name |-> "FileNotFound", level |-> "warning", errorCode |-> 60036],  \* line 1068
    [ns |-> "runtime", name |-> "ScopeNameAlreadySet", level |-> "error", errorCode |-> 60037],  \* line 1079
    [ns |-> "runtime", name |-> "ScriptNameAlreadySet", level |-> "warning", errorCode |-> 60038],  \* line 1088
    [ns |-> "runtime", name |-> "ReturningEmptyScriptHandle", level |-> "verbose", errorCode |-> 60039],  \* line 1097
    [ns |-> "runtime", name |-> "ReturningErrorCode", level |-> "verbose", errorCode |-> 60040],  \* line 1106
    [ns |-> "runtime", name |-> "ExpectedSubArrayTypeMissmatch", level |-> "error", errorCode |-> 60041],  \* line 1118
    [ns |-> "runtime", name |-> "ExpectedSubArrayTypeMissmatchWeak", level |-> "warning", errorCode |-> 60042],  \* line 1141
    [ns |-> "runtime", name |-> "ErrorMessage", level |-> "error", errorCode |-> 60043],  \* line 1164
    [ns |-> "runtime", name |-> "FileSystemDisabled", level |-> "warning", errorCode |-> 60044],  \* line 1177
    [ns |-> "runtime", name |-> "NetworkingDisabled", level |-> "warning", errorCode |-> 60045],  \* line 1186
    [ns |-> "runtime", name |-> "AlreadyConnected", level |-> "error", errorCode |-> 60046],  \* line 1195
    [ns |-> "runtime", name |-> "NetworkingFormatMissmatch", level |-> "error", errorCode |-> 60047],  \* line 1204
    [ns |-> "runtime", name |-> "FailedToEstablishConnection", level |-> "warning", errorCode |-> 60048],  \* line 1215
    [ns |-> "runtime", name |-> "ExpectedArrayToHaveElements", level |-> "error", errorCode |-> 60049],  \* line 1224
    [ns |-> "runtime", name |-> "ExpectedArrayToHaveElementsWeak", level |-> "warning", errorCode |-> 60050],  \* line 1233
    [ns |-> "runtime", name |-> "ClipboardDisabled", level |-> "warning", errorCode |-> 60051],  \* line 1243
    [ns |-> "runtime", name |-> "FailedToCopyToClipboard", level |-> "warning", errorCode |-> 60052],  \* line 1252
    [ns |-> "runtime", name |-> "FormatInvalidPlaceholder", level |-> "warning", errorCode |-> 60053],  \* line 1261
    [ns |-> "runtime", name |-> "ZeroDivisor", level |-> "warning", errorCode |-> 60054],  \* line 1274
    [ns |-> "runtime", name |-> "MarkerNotExisting", level |-> "warning", errorCode |-> 60055],  \* line 1283
    [ns |-> "runtime", name |-> "ReturningDefaultArray", level |-> "verbose", errorCode |-> 60056],  \* line 1294
    [ns |-> "runtime", name |-> "ReturningScalarZero", level |-> "verbose", errorCode |-> 60057],  \* line 1305
    [ns |-> "runtime", name |-> "ExpectedNonNullValue", level |-> "error", errorCode |-> 60058],  \* line 1314
    [ns |-> "runtime", name |-> "ExpectedNonNullValueWeak", level |-> "warning", errorCode |-> 60059],  \* line 1323
    [ns |-> "runtime", name |-> "ConfigEntryNotFound", level |-> "error", errorCode |-> 60060],  \* line 1332
    [ns |-> "runtime", name |-> "ConfigEntryNotFoundWeak", level |-> "warning", errorCode |-> 60061],  \* line 1350
    [ns |-> "runtime", name |-> "ExpectedVehicle", level |-> "error", errorCode |-> 60062],  \* line 1367
    [ns |-> "runtime", name |-> "ExpectedVehicleWeak", level |-> "warning", errorCode |-> 60063],  \* line 1376
    [ns |-> "runtime", name |-> "ExpectedUnit", level |-> "error", errorCode |-> 60064],  \* line 1385
    [ns |-> "runtime", name |-> "ExpectedUnitWeak", level |-> "warning", errorCode |-> 60065],  \* line 1394
    [ns |-> "runtime", name |-> "ReturningFalse", level |-> "verbose", errorCode |-> 60066],  \* line 1403
    [ns |-> "runtime", name |-> "MarkerAlreadyExisting", level |-> "warning", errorCode |-> 60067],  \* line 1412
    [ns |-> "runtime", name |-> "InvalidMarkershape", level |-> "warning", errorCode |-> 60067],  \* line 1423
    [ns |-> "runtime", name |-> "TypeMissmatch", level |-> "error", errorCode |-> 60068],  \* line 1434
    [ns |-> "runtime", name |-> "TypeMissmatchWeak", level |-> "warning", errorCode |-> 60069],  \* line 1447
    [ns |-> "runtime", name |-> "VariableNotFound", level |-> "warning", errorCode |-> 60070],  \* line 1460
    [ns |-> "runtime", name |-> "StackCorruptionMissingValues", level |-> "error", errorCode |-> 60071],  \* line 1472
    [ns |-> "runtime", name |-> "NoValueFoundForRightArgument", level |-> "error", errorCode |-> 60072],  \* line 1485
    [ns |-> "runtime", name |-> "NoValueFoundForRightArgumentWeak", level |-> "warning", errorCode |-> 60073],  \* line 1494
    [ns |-> "runtime", name |-> "NoValueFoundForLeftArgument", level |-> "error", errorCode |-> 60074],  \* line 1503
    [ns |-> "runtime", name |-> "NoValueFoundForLeftArgumentWeak", level |-> "warning", errorCode |-> 60075],  \* line 1512
    [ns |-> "runtime", name |-> "UnknownInputTypeCombinationBinary", level |-> "error", errorCode |-> 60076],  \* line 1521
    [ns |-> "runtime", name |-> "FoundNoValue", level |-> "error", errorCode |-> 60077],  \* line 1542
    [ns |-> "runtime", name |-> "CallstackFoundNoValue", level |-> "error", errorCode |-> 60078],  \* line 1551
    [ns |-> "runtime", name |-> "CallstackFoundNoValueWeak", level |-> "warning", errorCode |-> 60079],  \* line 1562
    [ns |-> "runtime", name |-> "GroupNotEmpty", level |-> "warning", errorCode |-> 60080],  \* line 1573
    [ns |-> "runtime", name |-> "ForStepVariableTypeMissmatch", level |-> "warning", errorCode |-> 60081],  \* line 1585
    [ns |-> "runtime", name |-> "ForStepNoWorkShouldBeDone", level |-> "warning", errorCode |-> 60082]  \* line 1600
  >>

Kinds_Mut_LintingKindWithRuntimeCode ==
    {Catalog[i] : i \in 1..Len(Catalog)}
        \cup {[ns |-> "linting", name |-> "UnusedVariable", level |-> "warning", errorCode |-> 60083]}

Kinds_Mut_SkipsCode ==
    {Catalog[i] : i \in 1..Len(Catalog)}
        \cup {[ns |-> "runtime", name |-> "ForStepIsZero", level |-> "warning", errorCode |-> 60084]}

Kinds_Mut_StacktraceIsError ==
    { IF Catalog[i].name = "Stacktrace" THEN [Catalog[i] EXCEPT !.level = "error"] ELSE Catalog[i] :
        i \in 1..Len(Catalog) }

Kinds_Mut_WeakCodeApart ==
    { IF Catalog[i].name = "TypeMissmatchWeak" THEN [Catalog[i] EXCEPT !.errorCode = 60083]
                                               ELSE Catalog[i] :
        i \in 1..Len(Catalog) }

Kinds == {Catalog[i] : i \in 1..Len(Catalog)}

KindTable ==
    [id \in {<<k.ns, k.name>> : k \in Kinds} |->
        CHOOSE k \in Kinds : <<k.ns, k.name>> = id]

Kind(ns, name) == KindTable[<<ns, name>>]

\* The kinds whose class name ends in Weak, each with the class of the same
\* namespace named without the suffix.
Twins ==
  {
    [ns |-> "runtime", strong |-> "ExpectedArraySizeMissmatch", weak |-> "ExpectedArraySizeMissmatchWeak"],
    [ns |-> "runtime", strong |-> "ExpectedMinimumArraySizeMissmatch", weak |-> "ExpectedMinimumArraySizeMissmatchWeak"],
    [ns |-> "runtime", strong |-> "ExpectedArrayTypeMissmatch", weak |-> "ExpectedArrayTypeMissmatchWeak"],
    [ns |-> "runtime", strong |-> "IndexOutOfRange", weak |-> "IndexOutOfRangeWeak"],
    [ns |-> "runtime", strong |-> "NegativeIndex", weak |-> "NegativeIndexWeak"],
    [ns |-> "runtime", strong |-> "NegativeSize", weak |-> "NegativeSizeWeak"],
    [ns |-> "runtime", strong |-> "StartIndexExceedsToIndex", weak |-> "StartIndexExceedsToIndexWeak"],
    [ns |-> "runtime", strong |-> "ExpectedSubArrayTypeMissmatch", weak |-> "ExpectedSubArrayTypeMissmatchWeak"],
    [ns |-> "runtime", strong |-> "ExpectedArrayToHaveElements", weak |-> "ExpectedArrayToHaveElementsWeak"],
    [ns |-> "runtime", strong |-> "ExpectedNonNullValue", weak |-> "ExpectedNonNullValueWeak"],
    [ns |-> "runtime", strong |-> "ConfigEntryNotFound", weak |-> "ConfigEntryNotFoundWeak"],
    [ns |-> "runtime", strong |-> "ExpectedVehicle", weak |-> "ExpectedVehicleWeak"],
    [ns |-> "runtime", strong |-> "ExpectedUnit", weak |-> "ExpectedUnitWeak"],
    [ns |-> "runtime", strong |-> "TypeMissmatch", weak |-> "TypeMissmatchWeak"],
    [ns |-> "runtime", strong |-> "NoValueFoundForRightArgument", weak |-> "NoValueFoundForRightArgumentWeak"],
    [ns |-> "runtime", strong |-> "NoValueFoundForLeftArgument", weak |-> "NoValueFoundForLeftArgumentWeak"],
    [ns |-> "runtime", strong |-> "CallstackFoundNoValue", weak |-> "CallstackFoundNoValueWeak"]
  }

\* The member declarations and the constructors (template header, parameters,
\* initialiser list; the class's own name written <self>) of each kind of Twins.
ShapeTable ==
    <<"runtime", "ExpectedArraySizeMissmatch">> :>
      [members |-> <<"size_t m_expected_min", "size_t m_expected_max", "size_t m_got">>,
       ctors |-> <<[template |-> "", params |-> <<"LogLocationInfo loc", "size_t expected", "size_t got">>, init |-> <<"<self>(loc, expected, expected, got)">>], [template |-> "", params |-> <<"LogLocationInfo loc", "size_t expected_min", "size_t expected_max", "size_t got">>, init |-> <<"RuntimeBase(level, errorCode, std::move(loc))", "m_expected_min(expected_min)", "m_expected_max(expected_max)", "m_got(got)">>]>>]  \* line 670
 @@ <<"runtime", "ExpectedArraySizeMissmatchWeak">> :>
      [members |-> <<"size_t m_expected_min", "size_t m_expected_max", "size_t m_got">>,
       ctors |-> <<[template |-> "", params |-> <<"LogLocationInfo loc", "size_t expected", "size_t got">>, init |-> <<"<self>(loc, expected, expected, got)">>], [template |-> "", params |-> <<"LogLocationInfo loc", "size_t expected_min", "size_t expected_max", "size_t got">>, init |-> <<"RuntimeBase(level, errorCode, std::move(loc))", "m_expected_min(expected_min)", "m_expected_max(expected_max)", "m_got(got)">>]>>]  \* line 688
 @@ <<"runtime", "ExpectedMinimumArraySizeMissmatch">> :>
      [members |-> <<"size_t m_expected", "size_t m_got">>,
       ctors |-> <<[template |-> "", params |-> <<"LogLocationInfo loc", "size_t expected", "size_t got">>, init |-> <<"RuntimeBase(level, errorCode, std::move(loc))", "m_expected(expected)", "m_got(got)">>]>>]  \* line 706
 @@ <<"runtime", "ExpectedMinimumArraySizeMissmatchWeak">> :>
      [members |-> <<"size_t m_expected", "size_t m_got">>,
       ctors |-> <<[template |-> "", params |-> <<"LogLocationInfo loc", "size_t expected", "size_t got">>, init |-> <<"RuntimeBase(level, errorCode, std::move(loc))", "m_expected(expected)", "m_got(got)">>]>>]  \* line 719
 @@ <<"runtime", "ExpectedArrayTypeMissmatch">> :>
      [members |-> <<"size_t m_position", "std::vector<::sqf::type> m_expected", "::sqf::type m_got">>,
       ctors |-> <<[template |-> "", params |-> <<"LogLocationInfo loc", "size_t position", "std::vector<::sqf::type> expected", "::sqf::type got">>, init |-> <<"RuntimeBase(level, errorCode, std::move(loc))", "m_position(position)", "m_expected(expected)", "m_got(got)">>], [template |-> "", params |-> <<"LogLocationInfo loc", "size_t position", "::sqf::type expected", "::sqf::type got">>, init |-> <<"<self>(loc, position, std::array<::sqf::type, 1> { expected }, got)">>], [template |-> "template<size_t size>", params |-> <<"LogLocationInfo loc", "size_t position", "std::array<::sqf::type, size> expected", "::sqf::type got">>, init |-> <<"<self>(loc, position, std::vector<::sqf::type>(expected.begin(), expected.end()), got)">>]>>]  \* line 732
 @@ <<"runtime", "ExpectedArrayTypeMissmatchWeak">> :>
      [members |-> <<"size_t m_position", "std::vector<::sqf::type> m_expected", "::sqf::type m_got">>,
       ctors |-> <<[template |-> "", params |-> <<"LogLocationInfo loc", "size_t position", "std::vector<::sqf::type> expected", "::sqf::type got">>, init |-> <<"RuntimeBase(level, errorCode, std::move(loc))", "m_position(position)", "m_expected(expected)", "m_got(got)">>], [template |-> "", params |-> <<"LogLocationInfo loc", "size_t position", "::sqf::type expected", "::sqf::type got">>, init |-> <<"<self>(loc, position, std::array<::sqf::type, 1> { expected }, got)">>], [template |-> "template<size_t size>", params |-> <<"LogLocationInfo loc", "size_t position", "std::array<::sqf::type, size> expected", "::sqf::type got">>, init |-> <<"<self>(loc, position, std::vector<::sqf::type>(expected.begin(), expected.end()), got)">>]>>]  \* line 754
 @@ <<"runtime", "IndexOutOfRange">> :>
      [members |-> <<"size_t m_range", "size_t m_index">>,
       ctors |-> <<[template |-> "", params |-> <<"LogLocationInfo loc", "size_t range", "size_t index">>, init |-> <<"RuntimeBase(level, errorCode, std::move(loc))", "m_range(range)", "m_index(index)">>]>>]  \* line 776
 @@ <<"runtime", "IndexOutOfRangeWeak">> :>
      [members |-> <<"size_t m_range", "size_t m_index">>,
       ctors |-> <<[template |-> "", params |-> <<"LogLocationInfo loc", "size_t range", "size_t index">>, init |-> <<"RuntimeBase(level, errorCode, std::move(loc))", "m_range(range)", "m_index(index)">>]>>]  \* line 789
 @@ <<"runtime", "NegativeIndex">> :>
      [members |-> <<>>,
       ctors |-> <<[template |-> "", params |-> <<"LogLocationInfo loc">>, init |-> <<"RuntimeBase(level, errorCode, std::move(loc))">>]>>]  \* line 803
 @@ <<"runtime", "NegativeIndexWeak">> :>
      [members |-> <<>>,
       ctors |-> <<[template |-> "", params |-> <<"LogLocationInfo loc">>, init |-> <<"RuntimeBase(level, errorCode, std::move(loc))">>]>>]  \* line 812
 @@ <<"runtime", "NegativeSize">> :>
      [members |-> <<>>,
       ctors |-> <<[template |-> "", params |-> <<"LogLocationInfo loc">>, init |-> <<"RuntimeBase(level, errorCode, std::move(loc))">>]>>]  \* line 852
 @@ <<"runtime", "NegativeSizeWeak">> :>
      [members |-> <<>>,
       ctors |-> <<[template |-> "", params |-> <<"LogLocationInfo loc">>, init |-> <<"RuntimeBase(level, errorCode, std::move(loc))">>]>>]  \* line 861
 @@ <<"runtime", "StartIndexExceedsToIndex">> :>
      [members |-> <<"size_t m_from", "size_t m_to">>,
       ctors |-> <<[template |-> "", params |-> <<"LogLocationInfo loc", "size_t from", "size_t to">>, init |-> <<"RuntimeBase(level, errorCode, std::move(loc))", "m_from(from)", "m_to(to)">>]>>]  \* line 929
 @@ <<"runtime", "StartIndexExceedsToIndexWeak">> :>
      [members |-> <<"size_t m_from", "size_t m_to">>,
       ctors |-> <<[template |-> "", params |-> <<"LogLocationInfo loc", "size_t from", "size_t to">>, init |-> <<"RuntimeBase(level, errorCode, std::move(loc))", "m_from(from)", "m_to(to)">>]>>]  \* line 942
 @@ <<"runtime", "ExpectedSubArrayTypeMissmatch">> :>
      [members |-> <<"std::vector<size_t> m_position", "std::vector<::sqf::type> m_expected", "::sqf::type m_got">>,
       ctors |-> <<[template |-> "", params |-> <<"LogLocationInfo loc", "std::vector<size_t> position", "std::vector<::sqf::type> expected", "::sqf::type got">>, init |-> <<"RuntimeBase(level, errorCode, std::move(loc))", "m_position(position)", "m_expected(expected)", "m_got(got)">>], [template |-> "template<size_t size>", params |-> <<"LogLocationInfo loc", "std::array<size_t, size> position", "::sqf::type expected", "::sqf::type got">>, init |-> <<"<self>(loc, position, std::array<::sqf::type, 1> { expected }, got)">>], [template |-> "template<size_t size1, size_t size2>", params |-> <<"LogLocationInfo loc", "std::array<size_t, size1> position", "std::array<::sqf::type, size2> expected", "::sqf::type got">>, init |-> <<"<self>(loc, std::vector<size_t>(position.begin(), position.end()), std::vector<::sqf::type>(expected.begin(), expected.end()), got)">>]>>]  \* line 1118
 @@ <<"runtime", "ExpectedSubArrayTypeMissmatchWeak">> :>
      [members |-> <<"std::vector<size_t> m_position", "std::vector<::sqf::type> m_expected", "::sqf::type m_got">>,
       ctors |-> <<[template |-> "", params |-> <<"LogLocationInfo loc", "std::vector<size_t> position", "std::vector<::sqf::type> expected", "::sqf::type got">>, init |-> <<"RuntimeBase(level, errorCode, std::move(loc))", "m_position(position)", "m_expected(expected)", "m_got(got)">>], [template |-> "template<size_t size>", params |-> <<"LogLocationInfo loc", "std::array<size_t, size> position", "::sqf::type expected", "::sqf::type got">>, init |-> <<"<self>(loc, position, std::array<::sqf::type, 1> { expected }, got)">>], [template |-> "template<size_t size1, size_t size2>", params |-> <<"LogLocationInfo loc", "std::array<size_t, size1> position", "std::array<::sqf::type, size2> expected", "::sqf::type got">>, init |-> <<"<self>(loc, std::vector<size_t>(position.begin(), position.end()), std::vector<::sqf::type>(expected.begin(), expected.end()), got)">>]>>]  \* line 1141
 @@ <<"runtime", "ExpectedArrayToHaveElements">> :>
      [members |-> <<>>,
       ctors |-> <<[template |-> "", params |-> <<"LogLocationInfo loc">>, init |-> <<"RuntimeBase(level, errorCode, std::move(loc))">>]>>]  \* line 1224
 @@ <<"runtime", "ExpectedArrayToHaveElementsWeak">> :>
      [members |-> <<>>,
       ctors |-> <<[template |-> "", params |-> <<"LogLocationInfo loc">>, init |-> <<"RuntimeBase(level, errorCode, std::move(loc))">>]>>]  \* line 1233
 @@ <<"runtime", "ExpectedNonNullValue">> :>
      [members |-> <<>>,
       ctors |-> <<[template |-> "", params |-> <<"LogLocationInfo loc">>, init |-> <<"RuntimeBase(level, errorCode, std::move(loc))">>]>>]  \* line 1314
 @@ <<"runtime", "ExpectedNonNullValueWeak">> :>
      [members |-> <<>>,
       ctors |-> <<[template |-> "", params |-> <<"LogLocationInfo loc">>, init |-> <<"RuntimeBase(level, errorCode, std::move(loc))">>]>>]  \* line 1323
 @@ <<"runtime", "ConfigEntryNotFound">> :>
      [members |-> <<"std::vector<std::string> m_config_path", "std::string m_config_name">>,
       ctors |-> <<[template |-> "", params |-> <<"LogLocationInfo loc", "std::vector<std::string> config_path", "std::string config_name">>, init |-> <<"RuntimeBase(level, errorCode, std::move(loc))", "m_config_path(config_path)", "m_config_name(config_name)">>], [template |-> "template<size_t size>", params |-> <<"LogLocationInfo loc", "std::array<std::string, size> config_path", "std::string config_name">>, init |-> <<"<self>(loc, std::vector<std::string>(config_path.begin(), config_path.end()), config_name)">>]>>]  \* line 1332
 @@ <<"runtime", "ConfigEntryNotFoundWeak">> :>
      [members |-> <<"std::vector<std::string> m_config_path", "std::string m_config_name">>,
       ctors |-> <<[template |-> "", params |-> <<"LogLocationInfo loc", "std::vector<std::string> config_path", "std::string config_name">>, init |-> <<"RuntimeBase(level, errorCode, std::move(loc))", "m_config_path(config_path)", "m_config_name(config_name)">>], [template |-> "template<size_t size>", params |-> <<"LogLocationInfo loc", "std::array<std::string, size> config_path", "std::string config_name">>, init |-> <<"<self>(loc, std::vector<std::string>(config_path.begin(), config_path.end()), config_name)">>]>>]  \* line 1350
 @@ <<"runtime", "ExpectedVehicle">> :>
      [members |-> <<>>,
       ctors |-> <<[template |-> "", params |-> <<"LogLocationInfo loc">>, init |-> <<"RuntimeBase(level, errorCode, std::move(loc))">>]>>]  \* line 1367
 @@ <<"runtime", "ExpectedVehicleWeak">> :>
      [members |-> <<>>,
       ctors |-> <<[template |-> "", params |-> <<"LogLocationInfo loc">>, init |-> <<"RuntimeBase(level, errorCode, std::move(loc))">>]>>]  \* line 1376
 @@ <<"runtime", "ExpectedUnit">> :>
      [members |-> <<>>,
       ctors |-> <<[template |-> "", params |-> <<"LogLocationInfo loc">>, init |-> <<"RuntimeBase(level, errorCode, std::move(loc))">>]>>]  \* line 1385
 @@ <<"runtime", "ExpectedUnitWeak">> :>
      [members |-> <<>>,
       ctors |-> <<[template |-> "", params |-> <<"LogLocationInfo loc">>, init |-> <<"RuntimeBase(level, errorCode, std::move(loc))">>]>>]  \* line 1394
 @@ <<"runtime", "TypeMissmatch">> :>
      [members |-> <<"::sqf::type m_expected", "::sqf::type m_got">>,
       ctors |-> <<[template |-> "", params |-> <<"LogLocationInfo loc", "::sqf::type expected", "::sqf::type got">>, init |-> <<"RuntimeBase(level, errorCode, std::move(loc))", "m_expected(expected)", "m_got(got)">>]>>]  \* line 1434
 @@ <<"runtime", "TypeMissmatchWeak">> :>
      [members |-> <<"::sqf::type m_expected", "::sqf::type m_got">>,
       ctors |-> <<[template |-> "", params |-> <<"LogLocationInfo loc", "::sqf::type expected", "::sqf::type got">>, init |-> <<"RuntimeBase(level, errorCode, std::move(loc))", "m_expected(expected)", "m_got(got)">>]>>]  \* line 1447
 @@ <<"runtime", "NoValueFoundForRightArgument">> :>
      [members |-> <<>>,
       ctors |-> <<[template |-> "", params |-> <<"LogLocationInfo loc">>, init |-> <<"RuntimeBase(level, errorCode, std::move(loc))">>]>>]  \* line 1485
 @@ <<"runtime", "NoValueFoundForRightArgumentWeak">> :>
      [members |-> <<>>,
       ctors |-> <<[template |-> "", params |-> <<"LogLocationInfo loc">>, init |-> <<"RuntimeBase(level, errorCode, std::move(loc))">>]>>]  \* line 1494
 @@ <<"runtime", "NoValueFoundForLeftArgument">> :>
      [members |-> <<>>,
       ctors |-> <<[template |-> "", params |-> <<"LogLocationInfo loc">>, init |-> <<"RuntimeBase(level, errorCode, std::move(loc))">>]>>]  \* line 1503
 @@ <<"runtime", "NoValueFoundForLeftArgumentWeak">> :>
      [members |-> <<>>,
       ctors |-> <<[template |-> "", params |-> <<"LogLocationInfo loc">>, init |-> <<"RuntimeBase(level, errorCode, std::move(loc))">>]>>]  \* line 1512
 @@ <<"runtime", "CallstackFoundNoValue">> :>
      [members |-> <<"std::string_view m_callstack_name">>,
       ctors |-> <<[template |-> "", params |-> <<"LogLocationInfo loc", "std::string_view callstack_name">>, init |-> <<"RuntimeBase(level, errorCode, std::move(loc))", "m_callstack_name(callstack_name)">>]>>]  \* line 1551
 @@ <<"runtime", "CallstackFoundNoValueWeak">> :>
      [members |-> <<"std::string_view m_callstack_name">>,
       ctors |-> <<[template |-> "", params |-> <<"LogLocationInfo loc", "std::string_view callstack_name">>, init |-> <<"RuntimeBase(level, errorCode, std::move(loc))", "m_callstack_name(callstack_name)">>]>>]  \* line 1562

Members_Mut_WeakLosesConstructor(ns, name) ==
    IF name = "ExpectedArraySizeMissmatchWeak"
    THEN [ShapeTable[<<ns, name>>] EXCEPT !.ctors = Tail(@)]
    ELSE ShapeTable[<<ns, name>>]

Members(ns, name) == ShapeTable[<<ns, name>>]

\* The Strong sibling's name for a Weak twin, the kind's own name otherwise.
StrongName(ns, name) ==
    IF \E t \in Twins : t.ns = ns /\ t.weak = name
    THEN (CHOOSE t \in Twins : t.ns = ns /\ t.weak = name).strong
    ELSE name

\* A concrete kind's constructor: the kind's own static level and errorCode
\* go to the domain base, the payload into the kind's members.
NewMessage(k, loc, payload) ==
    LET b == DomainBase(k.ns, k.level, k.errorCode, loc)
    IN  [base |-> b.base, location |-> b.location,
         kind |-> <<k.ns, k.name>>, payload |-> payload]

\* logmessage::runtime::ExpectedArraySizeMissmatch and its Weak twin: members
\* m_expected_min, m_expected_max, m_got; the three-argument constructor
\* delegates to the four-argument one.
ExpectedArraySizeMissmatch_MinMax(loc, expected_min, expected_max, got) ==
    NewMessage(Kind("runtime", "ExpectedArraySizeMissmatch"), loc,
               [n |-> <<expected_min, expected_max, got>>, s |-> <<>>])

ExpectedArraySizeMissmatch_Mut_MinZero(loc, expected, got) ==
    ExpectedArraySizeMissmatch_MinMax(loc, 0, expected, got)

ExpectedArraySizeMissmatch(loc, expected, got) ==
    ExpectedArraySizeMissmatch_MinMax(loc, expected, expected, got)

ExpectedArraySizeMissmatchWeak_MinMax(loc, expected_min, expected_max, got) ==
    NewMessage(Kind("runtime", "ExpectedArraySizeMissmatchWeak"), loc,
               [n |-> <<expected_min, expected_max, got>>, s |-> <<>>])

ExpectedArraySizeMissmatchWeak_Mut_GotTwice(loc, expected, got) ==
    ExpectedArraySizeMissmatchWeak_MinMax(loc, expected, got, got)

ExpectedArraySizeMissmatchWeak(loc, expected, got) ==
    ExpectedArraySizeMissmatchWeak_MinMax(loc, expected, expected, got)

\* std::vector<T>(first, last): the elements of the range, in order.
vector_Mut_Reversed(array) == [i \in 1..Len(array) |-> array[Len(array) + 1 - i]]

vector(array) == [i \in 1..Len(array) |-> array[i]]

\* logmessage::runtime::ExpectedArrayTypeMissmatch and its Weak twin: one
\* position, the list of expected types, the type got. The constructor taking
\* a vector stores; the one taking a std::array copies it to a vector; the one
\* taking a single type wraps it in a std::array of one element.
ExpectedArrayTypeMissmatch(loc, position, expected, got) ==
    NewMessage(Kind("runtime", "ExpectedArrayTypeMissmatch"), loc,
               [n |-> <<position>>, s |-> <<got>> \o expected])

ExpectedArrayTypeMissmatch_array(loc, position, expected, got) ==
    ExpectedArrayTypeMissmatch(loc, position, vector(expected), got)

ExpectedArrayTypeMissmatch_Mut_ExpectedTwice(loc, position, expected, got) ==
    ExpectedArrayTypeMissmatch_array(loc, position, <<expected, expected>>, got)

ExpectedArrayTypeMissmatch_type(loc, position, expected, got) ==
    ExpectedArrayTypeMissmatch_array(loc, position, <<expected>>, got)

ExpectedArrayTypeMissmatchWeak(loc, position, expected, got) ==
    NewMessage(Kind("runtime", "ExpectedArrayTypeMissmatchWeak"), loc,
               [n |-> <<position>>, s |-> <<got>> \o expected])

ExpectedArrayTypeMissmatchWeak_array(loc, position, expected, got) ==
    ExpectedArrayTypeMissmatchWeak(loc, position, vector(expected), got)

ExpectedArrayTypeMissmatchWeak_type(loc, position, expected, got) ==
    ExpectedArrayTypeMissmatchWeak_array(loc, position, <<expected>>, got)

\* logmessage::runtime::VariableNotFound: the variable's name.
VariableNotFound_Mut_NameDropped(loc, variable_name) ==
    NewMessage(Kind("runtime", "VariableNotFound"), loc, [n |-> <<>>, s |-> <<"">>])

VariableNotFound(loc, variable_name) ==
    NewMessage(Kind("runtime", "VariableNotFound"), loc, [n |-> <<>>, s |-> <<variable_name>>])

\* logmessage::runtime::UnknownInputTypeCombinationBinary: members m_operator,
\* m_left_got, m_right_got; the constructor without a left type stores
\* ::sqf::type::NA for it.
UnknownInputTypeCombinationBinary(loc, left_got, op, right_got) ==
    NewMessage(Kind("runtime", "UnknownInputTypeCombinationBinary"), loc,
               [n |-> <<>>, s |-> <<op, left_got, right_got>>])

UnknownInputTypeCombinationBinary_Mut_LeftIsRight(loc, op, right_got) ==
    NewMessage(Kind("runtime", "UnknownInputTypeCombinationBinary"), loc,
               [n |-> <<>>, s |-> <<op, right_got, right_got>>])

UnknownInputTypeCombinationBinary_NoLeft(loc, op, right_got) ==
    NewMessage(Kind("runtime", "UnknownInputTypeCombinationBinary"), loc,
               [n |-> <<>>, s |-> <<op, "NA", right_got>>])

m_operator(m) == m.payload.s[1]

m_left_got(m) == m.payload.s[2]

m_right_got(m) == m.payload.s[3]

\* logmessage::runtime::ExpectedSubArrayTypeMissmatch and its Weak twin: members
\* m_position, m_expected, m_got, each stored as given.
Prefix(seq, n) == [i \in 1..n |-> seq[i]]

Shorter(a, b) == IF Len(a) < Len(b) THEN Len(a) ELSE Len(b)

ExpectedSubArrayTypeMissmatch_Mut_CommonLength(loc, position, expected, got) ==
    NewMessage(Kind("runtime", "ExpectedSubArrayTypeMissmatch"), loc,
               [n |-> Prefix(position, Shorter(position, expected)),
                s |-> <<got>> \o Prefix(expected, Shorter(position, expected))])

ExpectedSubArrayTypeMissmatch(loc, position, expected, got) ==
    NewMessage(Kind("runtime", "ExpectedSubArrayTypeMissmatch"), loc,
               [n |-> position, s |-> <<got>> \o expected])

ExpectedSubArrayTypeMissmatchWeak(loc, position, expected, got) ==
    NewMessage(Kind("runtime", "ExpectedSubArrayTypeMissmatchWeak"), loc,
               [n |-> position, s |-> <<got>> \o expected])

\* The constructors taking std::array for position and expected, and the one
\* taking a std::array position and a single expected type.
ExpectedSubArrayTypeMissmatch_array(loc, position, expected, got) ==
    ExpectedSubArrayTypeMissmatch(loc, vector(position), vector(expected), got)

ExpectedSubArrayTypeMissmatch_type(loc, position, expected, got) ==
    ExpectedSubArrayTypeMissmatch_array(loc, position, <<expected>>, got)

ExpectedSubArrayTypeMissmatchWeak_array(loc, position, expected, got) ==
    ExpectedSubArrayTypeMissmatchWeak(loc, vector(position), vector(expected), got)

ExpectedSubArrayTypeMissmatchWeak_type(loc, position, expected, got) ==
    ExpectedSubArrayTypeMissmatchWeak_array(loc, position, <<expected>>, got)

m_position(m) == m.payload.n

m_got(m) == Head(m.payload.s)

m_expected(m) == Tail(m.payload.s)

\* LogLocationInfo(const sqf::instruction&): the position the instruction's
\* debug information names; without debug information path "", line 0, column 0.
LogLocationInfo_instruction_Mut_LineUnset(instr) ==
    IF instr.dbg = <<>>
    THEN LogLocationInfo("", 1, 0)
    ELSE LogLocationInfo(instr.dbg[1].path, instr.dbg[1].line, instr.dbg[1].col)

LogLocationInfo_instruction(instr) ==
    IF instr.dbg = <<>>
    THEN LogLocationInfo("", 0, 0)
    ELSE LogLocationInfo(instr.dbg[1].path, instr.dbg[1].line, instr.dbg[1].col)

\* formatMessage: the location, the kind's wording (one wording for a Strong
\* kind and its Weak twin), the payload values.
PayloadText(payload) ==
    [i \in 1..Len(payload.n) |-> ToString(payload.n[i])] \o payload.s

formatMessage(m) ==
    LogLocationInfo_format(m.location)
        \o <<StrongName(m.kind[1], m.kind[2])>> \o PayloadText(m.payload)

\* ------------------------------------------------------------------ inputs
Locations == {LogLocationInfo("test.sqf", 3, 7), LogLocationInfo("", 0, 0)}

NoPayload == [n |-> <<>>, s |-> <<>>]

Payloads == {NoPayload, [n |-> <<2, 5>>, s |-> <<"_foo">>]}

Sizes == {2, 5}

Positions == {<<0>>, <<0, 1>>}

TypeLists == {<<"SCALAR">>, <<"SCALAR", "STRING">>}

Types == {"SCALAR", "STRING"}

VariableNames == {"_foo", "_bar"}

Operators == {"+"}

\* Instruction handles: one without debug information, one with.
Instructions == {[dbg |-> <<>>], [dbg |-> <<LogLocationInfo("test.sqf", 3, 7)>>]}

\* The messages the components of the model emit: one kind for each severity
\* the catalog uses.
EmitKinds ==
    { Kind("runtime", "Stacktrace"),
      Kind("runtime", "ExpectedArraySizeMissmatch"),
      Kind("runtime", "ExpectedArraySizeMissmatchWeak"),
      Kind("runtime", "InfoMessage"),
      Kind("runtime", "ReturningNil") }

EmitMessages == {NewMessage(k, LogLocationInfo("test.sqf", 3, 7), NoPayload) : k \in EmitKinds}

\* The levels and texts handed to the sink primitive directly: a level that
\* emitted messages have too, and the last level of the enumeration, which no
\* kind of the catalog has.
LogLevels == {"warning", "trace"}

LogTexts == {<<"raw">>}

\* The Logger objects a component can be handed, and the levels and messages
\* used where two Loggers or two threads are followed.
LoggerIds == {1, 2}

GateLevels == {"error", "warning"}

GateMessages ==
    { NewMessage(k, LogLocationInfo("test.sqf", 3, 7), NoPayload) :
        k \in {Kind("runtime", "ExpectedArraySizeMissmatch"),
               Kind("runtime", "ExpectedArraySizeMissmatchWeak")} }

\* ------------------------------------------------------------------- state
VARIABLES
    enabledWarningLevels,  \* Logger::enabledWarningLevels: the gate of each level
    sink,                  \* what Logger::log received, in order
    message,               \* the held message object: <<>> or <<m>>
    renderCount,           \* calls of formatMessage so far
    last,                  \* the call that ran last, with its arguments and result
    lastSet,               \* for each level, the boolean of its latest setEnabled
    anySet,                \* whether setEnabled was ever called
    loggers,               \* two Logger objects side by side: gates and sink of each
    m_logger,              \* CanLog::m_logger: <<>> before construction, then <<id>>
    pc,                    \* where a thread stands inside CanLog::log
    console                \* the lines StdOutLogger::log wrote, in order

vars == <<enabledWarningLevels, sink, message, renderCount, last, lastSet, anySet,
          loggers, m_logger, pc, console>>

\* A call and what it was given or returned: a level, a boolean, a code, a text.
Call(op, level, b, n, text) ==
    [op |-> op, level |-> level, b |-> b, n |-> n, text |-> text]

\* ------------------------------------------------------------------ Logger
Logger_Mut_TraceClosed == [i \in 0..5 |-> i # 5]

Logger == [i \in 0..5 |-> TRUE]

isEnabled_Mut_AlwaysOpen(level) == TRUE

isEnabled_Mut_NextLevel(level) == enabledWarningLevels[(static_cast(level) + 1) % 6]

isEnabled(level) == enabledWarningLevels[static_cast(level)]

setEnabled_Mut_AndBelow(level, b) ==
    [i \in 0..5 |-> IF i >= static_cast(level) THEN b ELSE enabledWarningLevels[i]]

setEnabled_Mut_PushBack(level, b) ==
    [i \in 0..6 |-> IF i = static_cast(level) \/ i = 6 THEN b ELSE enabledWarningLevels[i]]

setEnabled(level, b) == [enabledWarningLevels EXCEPT ![static_cast(level)] = b]

Init ==
    /\ enabledWarningLevels = Logger
    /\ sink = <<>>
    /\ message = <<>>
    /\ renderCount = 0
    /\ last = Call("Logger", "", FALSE, 0, <<>>)
    /\ lastSet = Logger
    /\ anySet = FALSE
    /\ loggers = [id \in LoggerIds |-> [enabledWarningLevels |-> Logger, sink |-> <<>>]]
    /\ m_logger = <<>>
    /\ pc = "idle"
    /\ console = <<>>

\* Logger::setEnabled(level, isEnabled)
SetEnabled(level, b) ==
    /\ enabledWarningLevels' = setEnabled(level, b)
    /\ lastSet' = [lastSet EXCEPT ![static_cast(level)] = b]
    /\ anySet' = TRUE
    /\ last' = Call("setEnabled", level, b, 0, <<>>)
    /\ UNCHANGED <<sink, message, renderCount, loggers, m_logger, pc, console>>

IsEnabled_Mut_Reopens(level) ==
    /\ last' = Call("isEnabled", level, isEnabled(level), 0, <<>>)
    /\ enabledWarningLevels' = [enabledWarningLevels EXCEPT ![static_cast(level)] = TRUE]
    /\ UNCHANGED <<sink, message, renderCount, lastSet, anySet, loggers, m_logger, pc, console>>

\* Logger::isEnabled(level) const
IsEnabled(level) ==
    /\ last' = Call("isEnabled", level, isEnabled(level), 0, <<>>)
    /\ UNCHANGED <<enabledWarningLevels, sink, message, renderCount, lastSet, anySet, loggers, m_logger, pc, console>>

Logger_log_Mut_Gated(level, text) ==
    IF isEnabled(level) THEN Append(sink, [level |-> level, message |-> text]) ELSE sink

\* Logger::log(level, message): the sink primitive.
Logger_log(level, text) == Append(sink, [level |-> level, message |-> text])

Log(level, text) ==
    /\ Len(sink) < MaxSink
    /\ sink' = Logger_log(level, text)
    /\ last' = Call("log", level, TRUE, 0, <<>>)
    /\ UNCHANGED <<enabledWarningLevels, message, renderCount, lastSet, anySet, loggers, m_logger, pc, console>>

\* CanLog::log(message): the gate of the message's level decides; only an open
\* gate renders the message and writes it to the bound Logger's sink.
CanLog_log(m) ==
    IF isEnabled(getLevel(m))
    THEN /\ Len(sink) < MaxSink
         /\ sink' = Logger_log(getLevel(m), formatMessage(m))
         /\ renderCount' = renderCount + 1
         /\ last' = Call("emit", getLevel(m), TRUE, 0, <<>>)
         /\ UNCHANGED <<enabledWarningLevels, message, lastSet, anySet, loggers, m_logger, pc, console>>
    ELSE /\ last' = Call("emit", getLevel(m), FALSE, 0, <<>>)
         /\ UNCHANGED <<enabledWarningLevels, sink, message, renderCount, lastSet, anySet, loggers, m_logger, pc, console>>

Emit == \E m \in EmitMessages : CanLog_log(m)

Next ==
    \/ \E level \in Levels, b \in BOOLEAN : SetEnabled(level, b)
    \/ \E level \in Levels : IsEnabled(level)
    \/ \E level \in LogLevels, text \in LogTexts : Log(level, text)
    \/ Emit

Spec == Init /\ [][Next]_vars

\* ------------------------------------------------- a message's own methods
\* A stage constructs a message of any kind of the catalog and holds it.
Construct(k, loc, payload) ==
    /\ message' = <<NewMessage(k, loc, payload)>>
    /\ last' = Call("construct", "", FALSE, 0, <<>>)
    /\ UNCHANGED <<enabledWarningLevels, sink, renderCount, lastSet, anySet, loggers, m_logger, pc, console>>

\* LogMessageBase::getLevel()
GetLevel ==
    /\ message # <<>>
    /\ last' = Call("getLevel", getLevel(message[1]), FALSE, 0, <<>>)
    /\ UNCHANGED <<enabledWarningLevels, sink, message, renderCount, lastSet, anySet, loggers, m_logger, pc, console>>

\* LogMessageBase::getErrorCode()
GetErrorCode ==
    /\ message # <<>>
    /\ last' = Call("getErrorCode", "", FALSE, getErrorCode(message[1]), <<>>)
    /\ UNCHANGED <<enabledWarningLevels, sink, message, renderCount, lastSet, anySet, loggers, m_logger, pc, console>>

FormatMessage_Mut_CountsCalls ==
    /\ message # <<>>
    /\ renderCount < MaxRender
    /\ renderCount' = renderCount + 1
    /\ last' = Call("formatMessage", "", FALSE, 0,
                    formatMessage(message[1]) \o <<ToString(renderCount)>>)
    /\ UNCHANGED <<enabledWarningLevels, sink, message, lastSet, anySet, loggers, m_logger, pc, console>>

\* LogMessageBase::formatMessage() const
FormatMessage ==
    /\ message # <<>>
    /\ renderCount < MaxRender
    /\ renderCount' = renderCount + 1
    /\ last' = Call("formatMessage", "", FALSE, 0, formatMessage(message[1]))
    /\ UNCHANGED <<enabledWarningLevels, sink, message, lastSet, anySet, loggers, m_logger, pc, console>>

\* A stage constructs an array size mismatch, Strong or Weak, from (location,
\* expected, got) and holds it.
ConstructArraySize(weak, loc, expected, got) ==
    /\ message' = << IF weak THEN ExpectedArraySizeMissmatchWeak(loc, expected, got)
                             ELSE ExpectedArraySizeMissmatch(loc, expected, got) >>
    /\ last' = Call("constructArraySize", "", weak, expected, <<ToString(got)>>)
    /\ UNCHANGED <<enabledWarningLevels, sink, renderCount, lastSet, anySet, loggers, m_logger, pc, console>>

\* A stage constructs an array size mismatch, Strong or Weak, from (location,
\* expected_min, expected_max, got) and holds it.
ConstructArraySizeMinMax(weak, loc, expected_min, expected_max, got) ==
    /\ message' = << IF weak
                     THEN ExpectedArraySizeMissmatchWeak_MinMax(loc, expected_min, expected_max, got)
                     ELSE ExpectedArraySizeMissmatch_MinMax(loc, expected_min, expected_max, got) >>
    /\ last' = Call("constructArraySizeMinMax", "", weak, expected_min,
                    <<ToString(expected_max), ToString(got)>>)
    /\ UNCHANGED <<enabledWarningLevels, sink, renderCount, lastSet, anySet,
                   loggers, m_logger, pc, console>>

\* A stage constructs a sub-array type mismatch, Strong or Weak, and holds it;
\* the call is recorded with the number of positions and the types it was given.
ConstructSubArray(weak, loc, position, expected, got) ==
    /\ message' = << IF weak THEN ExpectedSubArrayTypeMissmatchWeak(loc, position, expected, got)
                             ELSE ExpectedSubArrayTypeMissmatch(loc, position, expected, got) >>
    /\ last' = Call("constructSubArray", "", weak, Len(position), <<got>> \o expected)
    /\ UNCHANGED <<enabledWarningLevels, sink, renderCount, lastSet, anySet, loggers, m_logger, pc, console>>

\* A stage constructs an array type mismatch, Strong or Weak, from a list of
\* expected types given as a vector or as a std::array.
ConstructArrayType(weak, array, loc, position, expected, got) ==
    /\ message' = << IF weak
                     THEN IF array THEN ExpectedArrayTypeMissmatchWeak_array(loc, position, expected, got)
                                   ELSE ExpectedArrayTypeMissmatchWeak(loc, position, expected, got)
                     ELSE IF array THEN ExpectedArrayTypeMissmatch_array(loc, position, expected, got)
                                   ELSE ExpectedArrayTypeMissmatch(loc, position, expected, got) >>
    /\ last' = Call("constructArrayType", "", weak, position, <<got>> \o expected)
    /\ UNCHANGED <<enabledWarningLevels, sink, renderCount, lastSet, anySet,
                   loggers, m_logger, pc, console>>

\* A stage constructs an array type mismatch, Strong or Weak, from one position
\* and a single expected type.
ConstructArrayTypeOne(weak, loc, position, expected, got) ==
    /\ message' = << IF weak THEN ExpectedArrayTypeMissmatchWeak_type(loc, position, expected, got)
                             ELSE ExpectedArrayTypeMissmatch_type(loc, position, expected, got) >>
    /\ last' = Call("constructArrayTypeOne", "", weak, position, <<got, expected>>)
    /\ UNCHANGED <<enabledWarningLevels, sink, renderCount, lastSet, anySet,
                   loggers, m_logger, pc, console>>

\* A stage constructs a sub-array type mismatch, Strong or Weak, from a
\* std::array of positions and a single expected type.
ConstructSubArrayOne(weak, loc, position, expected, got) ==
    /\ message' = << IF weak THEN ExpectedSubArrayTypeMissmatchWeak_type(loc, position, expected, got)
                             ELSE ExpectedSubArrayTypeMissmatch_type(loc, position, expected, got) >>
    /\ last' = Call("constructSubArrayOne", "", weak, Len(position), <<got, expected>>)
    /\ UNCHANGED <<enabledWarningLevels, sink, renderCount, lastSet, anySet,
                   loggers, m_logger, pc, console>>

\* A stage constructs an UnknownInputTypeCombinationBinary, with the left
\* operand's type or without it.
ConstructBinary(hasLeft, loc, left_got, op, right_got) ==
    /\ message' = << IF hasLeft THEN UnknownInputTypeCombinationBinary(loc, left_got, op, right_got)
                                ELSE UnknownInputTypeCombinationBinary_NoLeft(loc, op, right_got) >>
    /\ last' = Call("constructBinary", "", hasLeft, 0,
                    IF hasLeft THEN <<op, left_got, right_got>> ELSE <<op, right_got>>)
    /\ UNCHANGED <<enabledWarningLevels, sink, renderCount, lastSet, anySet,
                   loggers, m_logger, pc, console>>

\* A stage constructs a VariableNotFound for a variable name.
ConstructVariableNotFound(loc, variable_name) ==
    /\ message' = <<VariableNotFound(loc, variable_name)>>
    /\ last' = Call("constructVariableNotFound", "", FALSE, 0, <<variable_name>>)
    /\ UNCHANGED <<enabledWarningLevels, sink, renderCount, lastSet, anySet,
                   loggers, m_logger, pc, console>>

\* A stage constructs a message whose location comes from an instruction handle.
ConstructAt(k, instr) ==
    /\ message' = <<NewMessage(k, LogLocationInfo_instruction(instr), NoPayload)>>
    /\ last' = Call("LogLocationInfo", "", instr.dbg # <<>>, 0, <<>>)
    /\ UNCHANGED <<enabledWarningLevels, sink, renderCount, lastSet, anySet, loggers, m_logger, pc, console>>

NextCatalog ==
    \/ \E k \in Kinds, loc \in Locations, payload \in Payloads : Construct(k, loc, payload)
    \/ \E weak \in BOOLEAN, loc \in Locations, expected \in Sizes, got \in Sizes :
          ConstructArraySize(weak, loc, expected, got)
    \/ \E weak \in BOOLEAN, loc \in Locations, expected_min \in Sizes, expected_max \in Sizes :
          ConstructArraySizeMinMax(weak, loc, expected_min, expected_max, 5)
    \/ \E weak \in BOOLEAN, loc \in Locations, position \in Positions, expected \in TypeLists :
          ConstructSubArray(weak, loc, position, expected, "ARRAY")
    \/ \E weak \in BOOLEAN, array \in BOOLEAN, loc \in Locations, position \in Sizes,
             expected \in TypeLists :
          ConstructArrayType(weak, array, loc, position, expected, "ARRAY")
    \/ \E weak \in BOOLEAN, loc \in Locations, position \in Sizes, expected \in Types :
          ConstructArrayTypeOne(weak, loc, position, expected, "ARRAY")
    \/ \E weak \in BOOLEAN, loc \in Locations, position \in Positions, expected \in Types :
          ConstructSubArrayOne(weak, loc, position, expected, "ARRAY")
    \/ \E hasLeft \in BOOLEAN, loc \in Locations, left_got \in Types, right_got \in Types,
             op \in Operators :
          ConstructBinary(hasLeft, loc, left_got, op, right_got)
    \/ \E loc \in Locations, variable_name \in VariableNames :
          ConstructVariableNotFound(loc, variable_name)
    \/ \E k \in EmitKinds, instr \in Instructions : ConstructAt(k, instr)
    \/ GetLevel
    \/ GetErrorCode
    \/ FormatMessage

SpecCatalog == Init /\ [][NextCatalog]_vars

\* ------------------------------------------ a component and its Logger
\* Logger::isEnabled, Logger::setEnabled and Logger::log on one Logger object
\* among several.
isEnabledOf(logger, level) == logger.enabledWarningLevels[static_cast(level)]

setEnabledOf_Mut_AndBelow(logger, level, b) ==
    [logger EXCEPT !.enabledWarningLevels =
        [i \in 0..5 |-> IF i >= static_cast(level) THEN b ELSE @[i]]]

setEnabledOf(logger, level, b) ==
    [logger EXCEPT !.enabledWarningLevels[static_cast(level)] = b]

logOf(logger, level, text) ==
    [logger EXCEPT !.sink = Append(@, [level |-> level, message |-> text])]

CanLog_Mut_FirstLogger(logger) == <<1>>

\* CanLog::CanLog(Logger& logger) : m_logger(logger)
CanLog(logger) == <<logger>>

\* CanLog::get_logger()
get_logger == m_logger[1]

\* A component is constructed with one of the Loggers.
NewCanLog(logger) ==
    /\ m_logger = <<>>
    /\ m_logger' = CanLog(logger)
    /\ last' = Call("CanLog", "", FALSE, logger, <<>>)
    /\ UNCHANGED <<enabledWarningLevels, sink, message, renderCount, lastSet, anySet,
                   loggers, pc, console>>

\* Logger::setEnabled(level, isEnabled) on one of the Loggers.
SetEnabledOn(id, level, b) ==
    /\ loggers' = [loggers EXCEPT ![id] = setEnabledOf(@, level, b)]
    /\ last' = Call("setEnabled", level, b, id, <<>>)
    /\ UNCHANGED <<enabledWarningLevels, sink, message, renderCount, lastSet, anySet,
                   m_logger, pc, console>>

\* CanLog::log(message) of the constructed component.
EmitBound(m) ==
    /\ m_logger # <<>>
    /\ IF isEnabledOf(loggers[get_logger], getLevel(m))
       THEN /\ Len(loggers[get_logger].sink) < MaxSink
            /\ loggers' = [loggers EXCEPT
                              ![get_logger] = logOf(@, getLevel(m), formatMessage(m))]
            /\ last' = Call("emit", getLevel(m), TRUE, 0, <<>>)
       ELSE /\ last' = Call("emit", getLevel(m), FALSE, 0, <<>>)
            /\ UNCHANGED loggers
    /\ UNCHANGED <<enabledWarningLevels, sink, message, renderCount, lastSet, anySet,
                   m_logger, pc, console>>

NextBinding ==
    \/ \E logger \in LoggerIds : NewCanLog(logger)
    \/ \E id \in LoggerIds, level \in GateLevels, b \in BOOLEAN : SetEnabledOn(id, level, b)
    \/ \E m \in GateMessages : EmitBound(m)

SpecBinding == Init /\ [][NextBinding]_vars

\* ------------------------------------- two threads sharing one Logger
\* One thread runs CanLog::log(message) step by step: the call, the gate check
\* (Logger::isEnabled), then rendering and the sink write (Logger::log). The
\* other thread calls Logger::setEnabled on the same Logger at any time; the
\* Logger holds no lock, so nothing orders the two.
EmitCall(m) ==
    /\ pc = "idle"
    /\ Len(sink) < MaxSink
    /\ message' = <<m>>
    /\ pc' = "check"
    /\ last' = Call("emitCall", getLevel(m), FALSE, 0, <<>>)
    /\ UNCHANGED <<enabledWarningLevels, sink, renderCount, lastSet, anySet,
                   loggers, m_logger, console>>

EmitCheck ==
    /\ pc = "check"
    /\ pc' = IF isEnabled(getLevel(message[1])) THEN "write" ELSE "idle"
    /\ last' = Call("emitCheck", getLevel(message[1]), isEnabled(getLevel(message[1])), 0, <<>>)
    /\ UNCHANGED <<enabledWarningLevels, sink, message, renderCount, lastSet, anySet,
                   loggers, m_logger, console>>

EmitWrite_Mut_WaitsForOpenGate ==
    /\ pc = "write"
    /\ isEnabled(getLevel(message[1]))
    /\ sink' = Logger_log(getLevel(message[1]), formatMessage(message[1]))
    /\ renderCount' = renderCount + 1
    /\ pc' = "idle"
    /\ last' = Call("emitWrite", getLevel(message[1]), isEnabled(getLevel(message[1])), 0, <<>>)
    /\ UNCHANGED <<enabledWarningLevels, message, lastSet, anySet, loggers, m_logger, console>>

EmitWrite ==
    /\ pc = "write"
    /\ sink' = Logger_log(getLevel(message[1]), formatMessage(message[1]))
    /\ renderCount' = renderCount + 1
    /\ pc' = "idle"
    /\ last' = Call("emitWrite", getLevel(message[1]), isEnabled(getLevel(message[1])), 0, <<>>)
    /\ UNCHANGED <<enabledWarningLevels, message, lastSet, anySet, loggers, m_logger, console>>

NextThreads ==
    \/ \E m \in GateMessages : EmitCall(m)
    \/ EmitCheck
    \/ EmitWrite
    \/ \E level \in GateLevels, b \in BOOLEAN : SetEnabled(level, b)

SpecThreads == Init /\ [][NextThreads]_vars

\* The thread inside CanLog::log keeps running: it is never suspended for good.
SpecThreadsFair == SpecThreads /\ WF_vars(EmitCheck) /\ WF_vars(EmitWrite)

\* ------------------------------------------------- the console Logger
\* A value of type loglevel that is none of the six enumerators.
OutOfRangeLevels == {"static_cast<loglevel>(6)"}

ConsoleTexts == {<<"raw">>, <<"test.sqf", "3", "7", "ReturningNil">>}

loglevelstring_Mut_WarningAsError(level) ==
    CASE level = "fatal" -> <<"[", "F", "A", "T", "]">>
      [] level = "error" -> <<"[", "E", "R", "R", "]">>
      [] level = "warning" -> <<"[", "E", "R", "R", "]">>
      [] level = "info" -> <<"[", "I", "N", "F", "]">>
      [] level = "verbose" -> <<"[", "V", "B", "S", "]">>
      [] level = "trace" -> <<"[", "T", "R", "C", "]">>
      [] OTHER -> <<"[", "?", "?", "?", "]">>

loglevelstring_Mut_TraceFallsThrough(level) ==
    CASE level = "fatal" -> <<"[", "F", "A", "T", "]">>
      [] level = "error" -> <<"[", "E", "R", "R", "]">>
      [] level = "warning" -> <<"[", "W", "R", "N", "]">>
      [] level = "info" -> <<"[", "I", "N", "F", "]">>
      [] level = "verbose" -> <<"[", "V", "B", "S", "]">>
      [] OTHER -> <<"[", "?", "?", "?", "]">>

\* Logger::loglevelstring(level): the tag, character by character.
loglevelstring(level) ==
    CASE level = "fatal" -> <<"[", "F", "A", "T", "]">>
      [] level = "error" -> <<"[", "E", "R", "R", "]">>
      [] level = "warning" -> <<"[", "W", "R", "N", "]">>
      [] level = "info" -> <<"[", "I", "N", "F", "]">>
      [] level = "verbose" -> <<"[", "V", "B", "S", "]">>
      [] level = "trace" -> <<"[", "T", "R", "C", "]">>
      [] OTHER -> <<"[", "?", "?", "?", "]">>

\* StdOutLogger::log(level, message): one line on the console.
StdOutLogger_log(level, text) ==
    Append(console, loglevelstring(level) \o <<" ">> \o text \o <<"\n">>)

LoglevelString(level) ==
    /\ last' = Call("loglevelstring", level, FALSE, 0, loglevelstring(level))
    /\ UNCHANGED <<enabledWarningLevels, sink, message, renderCount, lastSet, anySet,
                   loggers, m_logger, pc, console>>

StdOutLog(level, text) ==
    /\ Len(console) < MaxSink
    /\ console' = StdOutLogger_log(level, text)
    /\ last' = Call("StdOutLogger::log", level, TRUE, 0, text)
    /\ UNCHANGED <<enabledWarningLevels, sink, message, renderCount, lastSet, anySet,
                   loggers, m_logger, pc>>

NextConsole ==
    \/ \E level \in Levels \cup OutOfRangeLevels : LoglevelString(level)
    \/ \E level \in Levels, text \in ConsoleTexts : StdOutLog(level, text)

SpecConsole == Init /\ [][NextConsole]_vars

\* ------------------------------------------------------------------ claims
StaticKind(m) == Kind(m.kind[1], m.kind[2])

GateOf(level) == enabledWarningLevels[static_cast(level)]

\* C1: for each of the six levels, isEnabled returns the boolean of the most
\* recent setEnabled call for that level (the constructor's value when there
\* was none), whatever was set for the other levels.
C1_IsEnabledIsLatestSetEnabled ==
    /\ \A level \in Levels : isEnabled(level) = lastSet[static_cast(level)]
    /\ last.op = "isEnabled" => last.b = lastSet[static_cast(last.level)]

C1_Witness ==
    /\ last.op = "isEnabled" /\ last.level = "warning" /\ last.b = FALSE
    /\ lastSet[static_cast("error")] = TRUE
    /\ lastSet[static_cast("info")] = FALSE
    /\ lastSet[static_cast("trace")] = TRUE

\* C2: an emit whose message's severity gate is closed writes nothing to the
\* sink and does not render the message, whatever the other five gates are.
C2_ClosedGateEmitDoesNothing ==
    [][last'.op = "emit" =>
          \A m \in EmitMessages :
             (CanLog_log(m) /\ ~GateOf(StaticKind(m).level))
                 => (sink' = sink /\ renderCount' = renderCount)]_vars

C2_Witness ==
    /\ last.op = "emit" /\ last.level = "warning" /\ last.b = FALSE
    /\ ~GateOf("warning") /\ GateOf("error") /\ ~GateOf("trace")
    /\ sink = <<>> /\ renderCount = 0

\* C3: an emit whose message's severity gate is open renders the message once
\* and hands the sink exactly one pair: the message's own level and the
\* rendered text.
C3_OpenGateEmitForwardsOnce ==
    [][last'.op = "emit" =>
          \A m \in EmitMessages :
             (CanLog_log(m) /\ GateOf(StaticKind(m).level))
                 => /\ sink' = Append(sink, [level |-> StaticKind(m).level,
                                             message |-> formatMessage(m)])
                    /\ renderCount' = renderCount + 1]_vars

C3_Witness ==
    /\ last.op = "emit" /\ last.level = "error" /\ last.b = TRUE
    /\ Len(sink) = 1 /\ sink[1].level = "error" /\ renderCount = 1
    /\ sink[1].message = <<"test.sqf", "3", "7", "ExpectedArraySizeMissmatch">>
    /\ ~GateOf("warning")

\* C4: a direct call of the sink primitive log(level, text) puts (level, text)
\* at the sink in every gate state, the gate of that level closed included.
C4_DirectLogBypassesGate ==
    [][\A level \in Levels :
          (last'.op = "log" /\ last'.level = level)
              => \E text \in LogTexts :
                    sink' = Append(sink, [level |-> level, message |-> text])]_vars

C4_Witness ==
    /\ last.op = "log" /\ last.level = "warning" /\ ~GateOf("warning")
    /\ Len(sink) = 1 /\ sink[1] = [level |-> "warning", message |-> <<"raw">>]

\* C5: no two concrete kinds of the catalog have the same errorCode.
C5_ErrorCodesUnique ==
    message # <<>> =>
        \A k \in Kinds :
            k.errorCode = getErrorCode(message[1]) => <<k.ns, k.name>> = message[1].kind

\* C6: for every kind, payload and location, getLevel and getErrorCode return
\* the kind's static level and errorCode, and no operation on the message
\* changes them after construction.
C6_LevelAndCodeFixedByKind ==
    /\ message # <<>> =>
          /\ getLevel(message[1]) = StaticKind(message[1]).level
          /\ getErrorCode(message[1]) = StaticKind(message[1]).errorCode
    /\ last.op = "getLevel" => last.level = StaticKind(message[1]).level
    /\ last.op = "getErrorCode" => last.n = StaticKind(message[1]).errorCode

C6_Witness ==
    /\ last.op = "getErrorCode" /\ last.n = 60004
    /\ message[1].kind = <<"runtime", "ExpectedArraySizeMissmatchWeak">>
    /\ message[1].payload # NoPayload
    /\ getLevel(message[1]) = "warning"
    /\ renderCount = MaxRender

\* C7: a newly constructed Logger has all six gates open: before any
\* setEnabled call isEnabled is true for every level.
C7_FreshLoggerAllOpen ==
    ~anySet =>
        /\ \A level \in Levels : isEnabled(level)
        /\ last.op = "isEnabled" => last.b = TRUE

C7_Witness ==
    ~anySet /\ last.op = "isEnabled" /\ last.level = "trace" /\ last.b = TRUE

\* C8: setEnabled(L, b) leaves the gate of every other level as it was, for
\* b true and for b false.
C8_SetEnabledLeavesOtherLevels ==
    [][\A level \in Levels :
          (last'.op = "setEnabled" /\ last'.level = level)
              => \A other \in Levels \ {level} : GateOf(other)' = GateOf(other)]_vars

C8_Witness ==
    /\ last.op = "setEnabled" /\ last.level = "info" /\ last.b = TRUE
    /\ GateOf("info") /\ ~GateOf("warning") /\ ~GateOf("verbose") /\ GateOf("fatal")

\* Exactly this level was disabled by setEnabled, every other level is enabled.
OnlyDisabled(level) ==
    \A l \in Levels : lastSet[static_cast(l)] = (l # level)

\* C9: with exactly one level L disabled (from a fresh Logger, warning say), an
\* emit of severity L writes nothing and an emit of any other severity writes
\* exactly one sink entry.
C9_OneLevelDisabledOthersForwarded ==
    [][last'.op = "emit" =>
          \A level \in Levels, m \in EmitMessages :
             (OnlyDisabled(level) /\ CanLog_log(m))
                 => IF StaticKind(m).level = level
                    THEN sink' = sink
                    ELSE sink' = Append(sink, [level |-> StaticKind(m).level,
                                               message |-> formatMessage(m)])]_vars

C9_Witness ==
    /\ OnlyDisabled("warning")
    /\ last.op = "emit" /\ last.level = "warning" /\ last.b = FALSE
    /\ Len(sink) = 1 /\ sink[1].level = "error" /\ renderCount = 1

\* C10: only setEnabled changes a gate: emit (gate open or closed), a direct
\* log, isEnabled and rendering leave all six gates as they were.
C10_OnlySetEnabledChangesGates ==
    [][enabledWarningLevels' # enabledWarningLevels => last'.op = "setEnabled"]_vars

C10_Witness ==
    /\ last.op = "isEnabled" /\ last.b = FALSE
    /\ Len(sink) = 2 /\ sink[1].message = <<"raw">> /\ renderCount = 1
    /\ enabledWarningLevels = lastSet /\ ~GateOf("verbose")

\* The code range of each domain: base + 1 .. base + 9999 over these bases.
DomainBaseCode ==
    [preprocessor |-> 10000, assembly |-> 20000, sqf |-> 30000,
     config |-> 40000, linting |-> 50000, runtime |-> 60000]

Domains == DOMAIN DomainBaseCode

DomainCodes(ns) == {k.errorCode : k \in {x \in Kinds : x.ns = ns}}

\* C11: every kind's code lies in the range of the domain it is declared in
\* (preprocessor 10000..19999, assembly 20000..29999, sqf 30000..39999,
\* config 40000..49999, linting 50000..59999, runtime 60000..69999).
C11_CodeInDomainRange ==
    /\ \A k \in Kinds :
          /\ k.ns \in Domains
          /\ k.errorCode \in DomainBaseCode[k.ns]..(DomainBaseCode[k.ns] + 9999)
    /\ message # <<>> =>
          getErrorCode(message[1]) \in
              DomainBaseCode[message[1].kind[1]]..(DomainBaseCode[message[1].kind[1]] + 9999)

C11_Witness ==
    /\ last.op = "getErrorCode" /\ last.n = 50001
    /\ message[1].kind = <<"linting", "UnassignedVariable">>

\* C12: in each domain the set of allocated codes is the gap-free run
\* base + 1 .. base + n; the lowest code of all is 10001, the highest 60082.
C12_CodesContiguous ==
    /\ \A ns \in Domains :
          DomainCodes(ns) =
              (DomainBaseCode[ns] + 1)..(DomainBaseCode[ns] + Cardinality(DomainCodes(ns)))
    /\ \A k \in Kinds : k.errorCode \in 10001..60082
    /\ \E k \in Kinds : k.errorCode = 10001
    /\ \E k \in Kinds : k.errorCode = 60082
    /\ message # <<>> =>
          getErrorCode(message[1]) \in
              (DomainBaseCode[message[1].kind[1]] + 1)..
                  (DomainBaseCode[message[1].kind[1]] + Cardinality(DomainCodes(message[1].kind[1])))

C12_Witness ==
    /\ last.op = "getErrorCode" /\ last.n = 60082
    /\ message[1].kind = <<"runtime", "ForStepNoWorkShouldBeDone">>

\* C13: every kind named ...Weak has a Strong sibling of the same namespace,
\* named without the suffix, with the same members and the same constructor
\* shapes; the Strong one has severity error, the Weak one warning, and apart
\* from severity and code the two are alike.
C13_WeakTwinsMirrorStrong ==
    /\ \A t \in Twins :
          /\ <<t.ns, t.strong>> \in DOMAIN KindTable
          /\ <<t.ns, t.weak>> \in DOMAIN KindTable
          /\ Kind(t.ns, t.strong).level = "error"
          /\ Kind(t.ns, t.weak).level = "warning"
          /\ Kind(t.ns, t.strong).errorCode # Kind(t.ns, t.weak).errorCode
          /\ Members(t.ns, t.weak) = Members(t.ns, t.strong)
    /\ message # <<>> =>
          \A t \in Twins :
             message[1].kind = <<t.ns, t.weak>> =>
                LET w == message[1]
                    st == NewMessage(Kind(t.ns, t.strong), w.location, w.payload)
                IN  /\ getLevel(w) = "warning" /\ getLevel(st) = "error"
                    /\ getErrorCode(w) # getErrorCode(st)
                    /\ st.location = w.location /\ st.payload = w.payload

C13_Witness ==
    /\ last.op = "getLevel" /\ last.level = "warning"
    /\ message[1].kind = <<"runtime", "ExpectedSubArrayTypeMissmatchWeak">>
    /\ message[1].payload # NoPayload

\* C14: a Strong kind and its Weak twin built from the same location and
\* payload render the same text (array size mismatch with expected 2, got 5:
\* both texts carry 2 and 5); emitted, the two sink entries differ in the
\* severity alone.
C14_TwinsRenderSameText ==
    message # <<>> =>
        LET st == message[1] IN
        /\ \A t \in Twins :
              st.kind = <<t.ns, t.strong>> =>
                 LET w == NewMessage(Kind(t.ns, t.weak), st.location, st.payload)
                     es == Logger_log(getLevel(st), formatMessage(st))
                     ew == Logger_log(getLevel(w), formatMessage(w))
                 IN  /\ formatMessage(w) = formatMessage(st)
                     /\ es[Len(es)].message = ew[Len(ew)].message
                     /\ es[Len(es)].level = "error" /\ ew[Len(ew)].level = "warning"
                     /\ last.op = "formatMessage" => last.text = formatMessage(w)
        /\ ( /\ st.kind = <<"runtime", "ExpectedArraySizeMissmatch">>
             /\ Len(st.payload.n) = 3 /\ st.payload.n[1] = st.payload.n[2] )
              => formatMessage(ExpectedArraySizeMissmatchWeak(
                                   st.location, st.payload.n[1], st.payload.n[3]))
                    = formatMessage(st)

C14_Witness ==
    /\ last.op = "formatMessage"
    /\ message[1] = ExpectedArraySizeMissmatch(LogLocationInfo("test.sqf", 3, 7), 2, 5)
    /\ last.text = <<"test.sqf", "3", "7", "ExpectedArraySizeMissmatch", "2", "2", "5">>
    /\ formatMessage(ExpectedArraySizeMissmatchWeak(LogLocationInfo("test.sqf", 3, 7), 2, 5))
          = last.text

\* C15: rendering is deterministic and has no side effect: a formatMessage
\* call leaves the message (level, code, payload, location) and the Logger
\* state as they were, and repeated calls on the message return the same text.
C15_RenderingPure ==
    [][last'.op = "formatMessage" =>
          /\ message' = message
          /\ enabledWarningLevels' = enabledWarningLevels
          /\ sink' = sink
          /\ lastSet' = lastSet
          /\ last'.text = formatMessage(message[1])
          /\ last.op = "formatMessage" => last'.text = last.text]_vars

C15_Witness ==
    /\ last.op = "formatMessage" /\ renderCount = MaxRender
    /\ message[1].kind = <<"runtime", "VariableNotFound">>
    /\ last.text = <<"test.sqf", "3", "7", "VariableNotFound", "2", "5", "_foo">>

IsSubArrayMissmatch(m) ==
    m.kind \in {<<"runtime", "ExpectedSubArrayTypeMissmatch">>,
                <<"runtime", "ExpectedSubArrayTypeMissmatchWeak">>}

\* C17 as claimed: a sub-array type mismatch, Strong or Weak, given lists of
\* different lengths yields no message, so every such message held has a
\* position list and an expected-type list of one length.
C17_MismatchedListsRejected ==
    (last.op = "constructSubArray" /\ message # <<>> /\ IsSubArrayMissmatch(message[1]))
        => Len(m_position(message[1])) = Len(m_expected(message[1]))

\* C17 as amended: a sub-array type mismatch, Strong or Weak, given lists of
\* any lengths, different ones included, yields a message of the kind's level
\* and code that holds the position list, the expected types and the got type
\* as given.
C17_MismatchedListsStored ==
    last.op = "constructSubArray" =>
        /\ message # <<>> /\ IsSubArrayMissmatch(message[1])
        /\ Len(m_position(message[1])) = last.n
        /\ <<m_got(message[1])>> \o m_expected(message[1]) = last.text
        /\ getLevel(message[1]) = (IF last.b THEN "warning" ELSE "error")
        /\ getErrorCode(message[1]) = (IF last.b THEN 60042 ELSE 60041)

C17_Witness ==
    /\ last.op = "constructSubArray" /\ last.b = TRUE
    /\ m_position(message[1]) = <<0, 1>>
    /\ m_expected(message[1]) = <<"SCALAR">>
    /\ m_got(message[1]) = "ARRAY"

\* C18: a location built from an instruction handle without debug information
\* is path "", line 0, column 0, and the message is built all the same.
C18_NoDebugInfoDefaultsLocation ==
    last.op = "LogLocationInfo" =>
        /\ message # <<>>
        /\ ~last.b => message[1].location = [path |-> "", line |-> 0, col |-> 0]
        /\ last.b => message[1].location = [path |-> "test.sqf", line |-> 3, col |-> 7]

C18_Witness ==
    /\ last.op = "LogLocationInfo" /\ last.b = FALSE
    /\ message[1].location.path = "" /\ message[1].location.line = 0
    /\ message[1].location.col = 0

\* C16: the constructor binds the component to the Logger it is given, nothing
\* rebinds it afterwards, and every emit consults that Logger's gate and
\* writes to that Logger's sink only, leaving every other Logger untouched.
C16_BindingFixedAtConstruction ==
    [][ /\ last'.op = "CanLog" => m_logger' = <<last'.n>>
        /\ m_logger # <<>> => m_logger' = m_logger
        /\ (last'.op = "emit" /\ m_logger # <<>>) =>
              /\ \A id \in LoggerIds \ {m_logger[1]} : loggers'[id] = loggers[id]
              /\ loggers'[m_logger[1]].enabledWarningLevels
                    = loggers[m_logger[1]].enabledWarningLevels
              /\ last'.b = loggers[m_logger[1]].enabledWarningLevels[static_cast(last'.level)]
              /\ Len(loggers'[m_logger[1]].sink)
                    = Len(loggers[m_logger[1]].sink) + (IF last'.b THEN 1 ELSE 0)
      ]_vars

C16_Witness ==
    /\ m_logger = <<2>>
    /\ last.op = "emit" /\ last.b = TRUE /\ last.level = "warning"
    /\ ~loggers[1].enabledWarningLevels[static_cast("warning")]
    /\ loggers[1].sink = <<>>
    /\ Len(loggers[2].sink) = 2

\* C19: emit's gate check and its sink write are separate steps with no lock
\* between them: the write is reached only past an open gate, a setEnabled of
\* the other thread completes between the two without waiting, and the write
\* then appends the message whatever the gate has become.
C19_CheckThenWriteUnsynchronized ==
    [][ /\ (pc = "check" /\ pc' = "write") => GateOf(getLevel(message[1]))
        /\ (pc = "write" /\ last'.op = "setEnabled") =>
              /\ pc' = "write"
              /\ enabledWarningLevels'[static_cast(last'.level)] = last'.b
        /\ (pc = "write" /\ pc' = "idle") =>
              sink' = Append(sink, [level |-> getLevel(message[1]),
                                    message |-> formatMessage(message[1])])
      ]_vars

C19_Witness ==
    /\ last.op = "emitWrite" /\ last.level = "warning" /\ last.b = FALSE
    /\ ~GateOf("warning")
    /\ sink # <<>> /\ sink[Len(sink)].level = "warning"

\* C20: every emit that was called returns: past the gate check it is either
\* back at once or one sink write away, and it is never left waiting.
C20_EmitTerminates == (pc # "idle") ~> (pc = "idle")

C20_Witness ==
    /\ pc = "idle" /\ last.op = "emitCheck" /\ last.b = FALSE
    /\ Len(sink) = 1

\* C23: the runtime kinds Stacktrace and MaximumInstructionCountReached have
\* severity fatal, in the catalog and on every message built of them.
C23_StacktraceAndInstructionCountFatal ==
    /\ Kind("runtime", "Stacktrace").level = "fatal"
    /\ Kind("runtime", "MaximumInstructionCountReached").level = "fatal"
    /\ (message # <<>> /\ message[1].kind \in {<<"runtime", "Stacktrace">>,
                                                <<"runtime", "MaximumInstructionCountReached">>})
          => getLevel(message[1]) = "fatal"

C23_Witness ==
    /\ message # <<>>
    /\ message[1].kind = <<"runtime", "MaximumInstructionCountReached">>
    /\ last.op = "getLevel" /\ last.level = "fatal"

\* C26: in every Strong/Weak twin pair of the catalog the Weak kind's code is
\* the Strong kind's code plus one.
C26_WeakCodeIsStrongPlusOne ==
    /\ \A t \in Twins :
          Kind(t.ns, t.weak).errorCode = Kind(t.ns, t.strong).errorCode + 1
    /\ (last.op = "getErrorCode" /\ StrongName(message[1].kind[1], message[1].kind[2]) # message[1].kind[2])
          => last.n = Kind(message[1].kind[1],
                           StrongName(message[1].kind[1], message[1].kind[2])).errorCode + 1

C26_Witness ==
    /\ last.op = "getErrorCode" /\ last.n = 60079
    /\ message[1].kind = <<"runtime", "CallstackFoundNoValueWeak">>

\* C24: the gate table always has exactly six entries, one per level, and the
\* index of each of the six levels lies inside it, whatever sequence of
\* setEnabled, isEnabled, log and emit calls came before.
C24_GateTableKeepsSixEntries ==
    /\ DOMAIN enabledWarningLevels = 0..5
    /\ Cardinality(DOMAIN enabledWarningLevels) = Cardinality(Levels)
    /\ \A level \in Levels : static_cast(level) \in DOMAIN enabledWarningLevels
    /\ \A i \in DOMAIN enabledWarningLevels : enabledWarningLevels[i] \in BOOLEAN

C24_Witness ==
    /\ DOMAIN enabledWarningLevels = 0..5
    /\ last.op = "isEnabled" /\ last.level = "trace" /\ last.b = FALSE
    /\ ~GateOf("fatal") /\ GateOf("verbose")
    /\ Len(sink) = MaxSink
    /\ sink[1].level = "trace" /\ sink[MaxSink].level = "error"

\* C25: on any gate state, setEnabled(L, b) twice gives what once gives, and
\* setEnabled on two different levels gives the same state in either order.
C25_SetEnabledIdempotentAndCommutes ==
    \A id \in LoggerIds :
        /\ \A L \in Levels, b \in BOOLEAN :
              setEnabledOf(setEnabledOf(loggers[id], L, b), L, b)
                  = setEnabledOf(loggers[id], L, b)
        /\ \A L1 \in Levels, L2 \in Levels, b1 \in BOOLEAN, b2 \in BOOLEAN :
              L1 # L2 =>
                  setEnabledOf(setEnabledOf(loggers[id], L1, b1), L2, b2)
                      = setEnabledOf(setEnabledOf(loggers[id], L2, b2), L1, b1)

C25_Witness ==
    /\ last.op = "setEnabled" /\ last.n = 1 /\ last.level = "error" /\ last.b = FALSE
    /\ ~loggers[1].enabledWarningLevels[static_cast("warning")]
    /\ ~loggers[1].enabledWarningLevels[static_cast("error")]
    /\ loggers[2].enabledWarningLevels[static_cast("error")]
    /\ m_logger = <<1>>

\* The tags as the claims list them.
TagOf ==
    [fatal |-> <<"[", "F", "A", "T", "]">>, error |-> <<"[", "E", "R", "R", "]">>,
     warning |-> <<"[", "W", "R", "N", "]">>, info |-> <<"[", "I", "N", "F", "]">>,
     verbose |-> <<"[", "V", "B", "S", "]">>, trace |-> <<"[", "T", "R", "C", "]">>]

\* C21: each log(level, text) call of the console Logger adds exactly one
\* line: the bracketed tag of the level, one space, the text, a newline.
C21_ConsoleLineFormat ==
    [][last'.op = "StdOutLogger::log" =>
          console' = Append(console, TagOf[last'.level] \o <<" ">> \o last'.text \o <<"\n">>)]_vars

C21_Witness ==
    /\ last.op = "StdOutLogger::log" /\ last.level = "verbose"
    /\ Len(console) = 2
    /\ console[1] = <<"[", "W", "R", "N", "]", " ", "test.sqf", "3", "7", "ReturningNil", "\n">>
    /\ console[2] = <<"[", "V", "B", "S", "]", " ", "raw", "\n">>

\* C27: each of the six levels has its own tag of five characters in
\* brackets, and a value outside the six gets [???], which no level has.
C27_LoglevelstringInjective ==
    /\ \A level \in Levels :
          /\ Len(loglevelstring(level)) = 5
          /\ loglevelstring(level)[1] = "[" /\ loglevelstring(level)[5] = "]"
          /\ loglevelstring(level) # <<"[", "?", "?", "?", "]">>
    /\ \A l1 \in Levels, l2 \in Levels :
          l1 # l2 => loglevelstring(l1) # loglevelstring(l2)
    /\ \A other \in OutOfRangeLevels : loglevelstring(other) = <<"[", "?", "?", "?", "]">>
    /\ last.op = "loglevelstring" =>
          (last.text = <<"[", "?", "?", "?", "]">>) = (last.level \notin Levels)

C27_Witness ==
    /\ last.op = "loglevelstring" /\ last.level \in OutOfRangeLevels
    /\ last.text = <<"[", "?", "?", "?", "]">>
    /\ Len(console) = 1

IsArraySizeMissmatch(m) ==
    m.kind \in {<<"runtime", "ExpectedArraySizeMissmatch">>,
                <<"runtime", "ExpectedArraySizeMissmatchWeak">>}

\* C28: an array size mismatch, Strong or Weak, built from (location,
\* expected, got) is the message the (location, expected_min, expected_max,
\* got) form builds with both bounds equal to expected: minimum and maximum
\* stored are expected, got is stored as given.
C28_ArraySizeShortFormIsMinMaxForm ==
    /\ \A loc \in Locations, expected \in Sizes, got \in Sizes :
          /\ ExpectedArraySizeMissmatch(loc, expected, got)
                = ExpectedArraySizeMissmatch_MinMax(loc, expected, expected, got)
          /\ ExpectedArraySizeMissmatchWeak(loc, expected, got)
                = ExpectedArraySizeMissmatchWeak_MinMax(loc, expected, expected, got)
    /\ last.op = "constructArraySize" =>
          /\ message # <<>> /\ IsArraySizeMissmatch(message[1])
          /\ message[1].payload.n[1] = last.n
          /\ message[1].payload.n[2] = last.n
          /\ ToString(message[1].payload.n[3]) = last.text[1]
          /\ getErrorCode(message[1]) = (IF last.b THEN 60004 ELSE 60003)

C28_Witness ==
    /\ last.op = "constructArraySize" /\ last.b = FALSE /\ last.n = 5
    /\ message[1].payload.n = <<5, 5, 2>>
    /\ message[1] = ExpectedArraySizeMissmatch_MinMax(LogLocationInfo("", 0, 0), 5, 5, 2)

\* C29: an array type mismatch or sub-array type mismatch, Strong or Weak,
\* built with a single expected type holds a list of exactly that one type,
\* with the position or positions and the got type as given; and the forms
\* taking fixed-size arrays hold the same elements in the same order as the
\* form taking lists.
C29_SingleExpectedTypeStoredAsList ==
    /\ last.op = "constructArrayTypeOne" =>
          /\ message[1].kind = <<"runtime", IF last.b THEN "ExpectedArrayTypeMissmatchWeak"
                                                       ELSE "ExpectedArrayTypeMissmatch">>
          /\ Len(m_expected(message[1])) = 1
          /\ m_expected(message[1])[1] = last.text[2]
          /\ m_got(message[1]) = last.text[1]
          /\ m_position(message[1]) = <<last.n>>
    /\ last.op = "constructSubArrayOne" =>
          /\ message[1].kind = <<"runtime", IF last.b THEN "ExpectedSubArrayTypeMissmatchWeak"
                                                       ELSE "ExpectedSubArrayTypeMissmatch">>
          /\ Len(m_expected(message[1])) = 1
          /\ m_expected(message[1])[1] = last.text[2]
          /\ m_got(message[1]) = last.text[1]
          /\ m_position(message[1]) \in Positions
          /\ Len(m_position(message[1])) = last.n
    /\ last.op = "constructArrayType" =>
          /\ m_expected(message[1]) = Tail(last.text)
          /\ m_position(message[1]) = <<last.n>>
    /\ \A loc \in Locations, expected \in TypeLists :
          /\ \A position \in Sizes :
                /\ ExpectedArrayTypeMissmatch_array(loc, position, expected, "ARRAY")
                      = ExpectedArrayTypeMissmatch(loc, position, expected, "ARRAY")
                /\ ExpectedArrayTypeMissmatchWeak_array(loc, position, expected, "ARRAY")
                      = ExpectedArrayTypeMissmatchWeak(loc, position, expected, "ARRAY")
          /\ \A position \in Positions :
                /\ ExpectedSubArrayTypeMissmatch_array(loc, position, expected, "ARRAY")
                      = ExpectedSubArrayTypeMissmatch(loc, position, expected, "ARRAY")
                /\ ExpectedSubArrayTypeMissmatchWeak_array(loc, position, expected, "ARRAY")
                      = ExpectedSubArrayTypeMissmatchWeak(loc, position, expected, "ARRAY")

C29_Witness ==
    /\ last.op = "constructSubArrayOne" /\ last.b = TRUE
    /\ m_position(message[1]) = <<0, 1>>
    /\ m_expected(message[1]) = <<"STRING">>
    /\ m_got(message[1]) = "ARRAY"
    /\ getErrorCode(message[1]) = 60042

\* The text has the tokens a, b, c in this order.
InOrder(text, a, b, c) ==
    \E i \in 1..Len(text), j \in 1..Len(text), k \in 1..Len(text) :
        i < j /\ j < k /\ text[i] = a /\ text[j] = b /\ text[k] = c

Contains(text, a) == \E i \in 1..Len(text) : text[i] = a

\* C22: the text of a runtime VariableNotFound built from a location and a
\* variable name contains the name and the location's path, line and column,
\* path before line before column (for _foo at test.sqf, 3, 7: _foo,
\* test.sqf, 3 and 7).
C22_VariableNotFoundTextHasNameAndLocation ==
    ( /\ last.op = "formatMessage"
      /\ message[1].kind = <<"runtime", "VariableNotFound">>
      /\ message[1].payload.n = <<>> /\ message[1].payload.s # <<>> )
        => /\ \E variable_name \in VariableNames :
                 /\ message[1].payload.s = <<variable_name>>
                 /\ Contains(last.text, variable_name)
           /\ InOrder(last.text, message[1].location.path,
                       ToString(message[1].location.line), ToString(message[1].location.col))
           /\ message[1] = VariableNotFound(LogLocationInfo("test.sqf", 3, 7), "_foo")
                 => /\ Contains(last.text, "_foo")
                    /\ InOrder(last.text, "test.sqf", "3", "7")

C22_Witness ==
    /\ last.op = "formatMessage"
    /\ message[1] = VariableNotFound(LogLocationInfo("test.sqf", 3, 7), "_foo")
    /\ Contains(last.text, "_foo") /\ InOrder(last.text, "test.sqf", "3", "7")

\* C30: UnknownInputTypeCombinationBinary built without a left operand type
\* holds NA as the left type, and has severity error and code 60076 exactly
\* as when built with a left type.
C30_BinaryWithoutLeftStoresNA ==
    last.op = "constructBinary" =>
        /\ message # <<>>
        /\ message[1].kind = <<"runtime", "UnknownInputTypeCombinationBinary">>
        /\ getLevel(message[1]) = "error"
        /\ getErrorCode(message[1]) = 60076
        /\ m_operator(message[1]) = last.text[1]
        /\ m_right_got(message[1]) = last.text[Len(last.text)]
        /\ m_left_got(message[1]) = (IF last.b THEN last.text[2] ELSE "NA")

C30_Witness ==
    /\ last.op = "constructBinary" /\ last.b = FALSE
    /\ m_left_got(message[1]) = "NA" /\ m_right_got(message[1]) = "STRING"
    /\ getLevel(message[1]) = "error" /\ getErrorCode(message[1]) = 60076

====
